---- MODULE Spec2Model ----
(***************************************************************************)
(* The concurrent monitoring and failover engine of status_ui_v2.rs:       *)
(* the vote poller, the emergency failover orchestrator and the render     *)
(* loop, over the shared UiState and the emergency_takeover_in_progress    *)
(* flag.                                                                   *)
(*                                                                         *)
(* Option<T> is a sequence of length at most one: None is <<>>, Some(x) is *)
(* <<x>>.  Vec<T> is a sequence indexed from 1, so validator idx of the    *)
(* source is idx + 1 here.                                                 *)
(*                                                                         *)
(* An Instant is kept as its age: the whole seconds elapsed since it was   *)
(* taken, so Instant::now() is 0, t.elapsed().as_secs() is the age itself, *)
(* and a passing second (Tick) ages every Instant held anywhere.  The code *)
(* only compares ages with thresholds, so ages saturate at MaxAge, which   *)
(* lies above every threshold.                                             *)
(***************************************************************************)
EXTENDS Integers, Sequences, FiniteSets, TLC

\* ------------------------------------------------------------------ bounds
NumValidators == 2
MaxSlot == 2
MaxFailures == 2
MaxOrch == 2
\* alert_config.delinquency_threshold_seconds / rpc_failure_threshold_seconds
DelinquencyThreshold == 1
RpcFailureThreshold == 1
\* suppression_window of an Alert Suppression Record
SuppressionWindow == 2
\* alert_config.ssh_failure_threshold_seconds
SshFailureThreshold == 1
\* refreshes in flight at once (the operator waits before starting more)
MaxRefresh == 2
\* key events waiting in the terminal for event::poll
MaxKeyEvents == 1

\* ------------------------------------------------------- program constants
\* sleep(300 ms) of the orchestrator, in 100 ms frames of the render loop
SuspendFrames == 3
\* an increment flash is kept while existing.elapsed().as_secs() < 2
IncrementKeepSecs == 2
\* the capacity of a streamer's channel
ChannelCapacity == 100
\* a raw line longer than RawLineLimit is cut to RawLineKeep characters and "..."
RawLineLimit == 40
RawLineKeep == 37
\* the lines one stream command prints before it ends, at most
MaxLines == 102
\* the largest slot distance a catchup line reports
MaxBehind == 100

Validators == 1..NumValidators
Slots == 1..MaxSlot

Max(a, b) == IF a > b THEN a ELSE b
Min(a, b) == IF a < b THEN a ELSE b

\* ages saturate one above the largest threshold an age is compared with
MaxAge ==
    1 + Max(Max(DelinquencyThreshold, RpcFailureThreshold),
            Max(SuppressionWindow + 1, IncrementKeepSecs))
Ages == 0..MaxAge
OrchIds == 1..MaxOrch
\* the two nodes of a validator pair: nodes_with_status[0] and [1]
Nodes == 1..2
\* refresh_all_fields instances
RefreshIds == 1..MaxRefresh

None == <<>>
Some(x) == <<x>>
IsSome(o) == o # <<>>
Unwrap(o) == o[1]

VARIABLES
    alert_config,       \* app_state.config.alert_config
    node_status,        \* app_state.validator_statuses[idx].nodes_with_status[k].status
    rpc_failure_tracker,\* UiState.rpc_failure_tracker
    validator_health,   \* UiState.validator_health
    vote_data,          \* UiState.vote_data (each datum: its recent_votes.last().slot)
    previous_last_slots,\* UiState.previous_last_slots
    increment_times,    \* UiState.increment_times
    last_vote_slot_times,\* UiState.last_vote_slot_times
    alert_tracker,      \* the vote poller's ComprehensiveAlertTracker
    poller,             \* the vote poller's position and locals
    uiLock,             \* the task holding a ui_state guard across steps
    orch,               \* the spawned execute_emergency_failover tasks
    emergency_takeover_in_progress,
    ui,                 \* the render loop: position, locals, terminal
    should_quit,
    view_state,
    switch_confirmed,
    key_events,         \* key presses in the terminal, not yet read by event::read
    key_hist,           \* history of the keys handled (not program state)
    validator_statuses, \* UiState.validator_statuses[v].nodes_with_status[k]
    remote,             \* what getIdentity answers on node k of validator v
    is_refreshing,      \* UiState.is_refreshing
    field_refresh_states,\* UiState.field_refresh_states
    refreshers,         \* the spawned refresh_all_fields tasks
    node_tasks,         \* the spawned refresh_node_* tasks not yet finished
    ssh,                \* the SSH prober's position
    ssh_alert_tracker,  \* the SSH prober's ComprehensiveAlertTracker
    hist,               \* history of the poller's decisions (not program state)
    detected_ssh_keys,  \* app_state.detected_ssh_keys holds a key for the node's host
    ssh_health_data,    \* UiState.ssh_health_data
    catchup_data,       \* UiState.catchup_data
    streamer,           \* the stream_catchup_for_node tasks and their parsers
    parse_call          \* a call of parse_catchup_output: arguments and result

vars == << alert_config, node_status, rpc_failure_tracker, validator_health,
           vote_data, previous_last_slots, increment_times, last_vote_slot_times,
           alert_tracker, poller, uiLock, orch, emergency_takeover_in_progress,
           ui, should_quit, view_state, switch_confirmed, key_events, key_hist,
           validator_statuses, remote, is_refreshing, field_refresh_states,
           refreshers, node_tasks, ssh, ssh_alert_tracker, hist,
           detected_ssh_keys, ssh_health_data, catchup_data, streamer,
           parse_call >>

\* the variables of the field refresher, of the keyboard and of the SSH prober
refresh_vars == << validator_statuses, remote, is_refreshing,
                   field_refresh_states, refreshers, node_tasks >>
key_vars == << key_events, key_hist >>
ssh_vars == << ssh, ssh_alert_tracker, ssh_health_data >>
\* the startup configuration; the catchup streamers and the parser
config_vars == << detected_ssh_keys >>
catchup_vars == << catchup_data, streamer, parse_call >>

\* ---------------------------------------------------------- FailureTracker
NewFailureTracker ==
    [consecutive_failures |-> 0, first_failure_at |-> None, last_error |-> None]

record_success(t) == NewFailureTracker

record_failure(t, msg) ==
    [consecutive_failures |-> t.consecutive_failures + 1,
     first_failure_at |-> IF t.consecutive_failures = 0 THEN Some(0)
                          ELSE t.first_failure_at,
     last_error |-> Some(msg)]

seconds_since_first_failure(t) ==
    t.first_failure_at

\* ------------------------------------------------------------ AlertTracker
\* A tracker is the vector of last_alert_at, one per validator.
NewAlertTracker == [v \in Validators |-> None]

\* true iff last_alert_at is unset or older than the window
AlertPermitted(tr, idx) ==
    \/ tr[idx] = None
    \/ Unwrap(tr[idx]) > SuppressionWindow

\* a true return acknowledges: it updates last_alert_at
AlertAcknowledged(tr, idx) == [tr EXCEPT ![idx] = Some(0)]

AlertReset(tr, idx) == [tr EXCEPT ![idx] = None]

\* ------------------------------------------------------------------- state
NodeStatuses == {"Active", "Standby", "Unknown"}

\* the role pairs a validator's two nodes start with
StartupRoles == { <<"Active", "Standby">>, <<"Unknown", "Standby">> }

\* alert_config is an Option: some = FALSE is None
AlertConfigs ==
    { [some |-> FALSE, enabled |-> FALSE, auto_failover_enabled |-> FALSE] } \cup
    [some : {TRUE}, enabled : BOOLEAN, auto_failover_enabled : BOOLEAN]

NewNodeHealthStatus ==
    [ssh_status |-> NewFailureTracker, rpc_status |-> NewFailureTracker]

PollerIdle ==
    [pc |-> "sleep", idx |-> 0, new_vote_data |-> <<>>,
     new_increments |-> <<>>, new_slot_times |-> <<>>]

IdleOrch == [phase |-> "Idle", v |-> 0, timer |-> 0]

\* validator_pair.identity_pubkey of validator v; 0 is any other identity
IdentityPubkey(v) == v

\* what the getIdentity command can answer on a node of validator v: nothing
\* usable (the command fails or its output does not parse), an unfunded
\* identity, or the validator's identity
RemoteAnswers(v) == { None, Some(0), Some(IdentityPubkey(v)) }

\* a node as startup classified it: the role and the identity it was read from
StartupNode(v, status) ==
    [status |-> status,
     current_identity |-> IF status = "Active" THEN Some(IdentityPubkey(v))
                          ELSE IF status = "Standby" THEN Some(0)
                          ELSE None,
     version |-> None]

NewFieldRefreshState ==
    [status_refreshing |-> FALSE, identity_refreshing |-> FALSE,
     version_refreshing |-> FALSE]

AllRefreshing ==
    [status_refreshing |-> TRUE, identity_refreshing |-> TRUE,
     version_refreshing |-> TRUE]

IdleRefresher == [phase |-> "Idle", rv |-> {}]

NoNodeTasks == [status_and_identity |-> 0, version |-> 0]

\* the entry the prober builds for a node before it probes it
NewSshHealthStatus ==
    [is_healthy |-> FALSE, last_success |-> None, failure_start |-> None]

SshIdle ==
    [pc |-> "sleep", idx |-> 0, node_pair |-> [k \in Nodes |-> NewSshHealthStatus],
     new_ssh_health_data |-> <<>>]

NewHist ==
    [reset |-> FALSE, run_slot |-> None, run_alerts |-> 0, run_alert_at |-> None,
     run_spawns |-> 0, stage |-> 0,
     \* RPC-failure alerts: one sent by the last fetch, the age of the last one
     \* sent, and whether a failed poll of this failure run reached the threshold
     rpc_alert |-> FALSE, rpc_alert_at |-> None, rpc_past |-> FALSE]

\* ------------------------------------------------------------------ strings
\* str::contains, str::find and str::rfind (byte offsets from 0), slices
Contains(s, pat) ==
    \E i \in 1..(Len(s) - Len(pat) + 1) : SubSeq(s, i, i + Len(pat) - 1) = pat

Find(s, pat) ==
    LET hits == { i \in 0..(Len(s) - Len(pat)) : SubSeq(s, i + 1, i + Len(pat)) = pat }
    IN IF hits = {} THEN None
       ELSE Some(CHOOSE i \in hits : \A j \in hits : i <= j)

RFind(s, pat) ==
    LET hits == { i \in 0..(Len(s) - Len(pat)) : SubSeq(s, i + 1, i + Len(pat)) = pat }
    IN IF hits = {} THEN None
       ELSE Some(CHOOSE i \in hits : \A j \in hits : i >= j)

\* str::trim
Trim(s) ==
    LET IsWhitespace(c) == c \in {" ", "\t"}
        RECURSIVE TrimStart(_)
        TrimStart(t) ==
            IF t # "" /\ IsWhitespace(SubSeq(t, 1, 1))
            THEN TrimStart(SubSeq(t, 2, Len(t)))
            ELSE t
        RECURSIVE TrimEnd(_)
        TrimEnd(t) ==
            IF t # "" /\ IsWhitespace(SubSeq(t, Len(t), Len(t)))
            THEN TrimEnd(SubSeq(t, 1, Len(t) - 1))
            ELSE t
    IN TrimEnd(TrimStart(s))

DigitChars == << "0", "1", "2", "3", "4", "5", "6", "7", "8", "9" >>

IsDigit(c) == \E d \in 1..10 : DigitChars[d] = c

\* str::parse::<u64>: an optional "+", then one decimal digit at least; the
\* numerals of the lines below are far from u64::MAX
ParseU64(s) ==
    LET digits == IF s # "" /\ SubSeq(s, 1, 1) = "+" THEN SubSeq(s, 2, Len(s)) ELSE s
        DigitValue(c) == (CHOOSE d \in 1..10 : DigitChars[d] = c) - 1
        RECURSIVE DecimalValue(_)
        DecimalValue(t) ==
            IF t = "" THEN 0
            ELSE 10 * DecimalValue(SubSeq(t, 1, Len(t) - 1))
                     + DigitValue(SubSeq(t, Len(t), Len(t)))
    IN IF digits # "" /\ \A i \in 1..Len(digits) : IsDigit(SubSeq(digits, i, i))
       THEN Some(DecimalValue(digits))
       ELSE None

\* the Display of a u64
RECURSIVE Decimal(_)
Decimal(n) ==
    IF n < 10 THEN DigitChars[n + 1]
    ELSE Decimal(n \div 10) \o DigitChars[(n % 10) + 1]

\* ----------------------------------------------------- parse_catchup_output
\* RawLine: an unparsed line as it is shown, cut to RawLineKeep characters
\* and "..." when longer than RawLineLimit. SlotsBehind: the slot count
\* before " slot(s) behind" at pos, "N slots behind" when it parses as a u64,
\* else the line as it came; output[start..pos] is SubSeq(output, start + 1, pos).
parse_catchup_output(output, is_firedancer) ==
    LET RawLine(trimmed) ==
            IF Len(trimmed) > RawLineLimit
            THEN SubSeq(trimmed, 1, Min(RawLineKeep, Len(trimmed))) \o "..."
            ELSE trimmed
        SlotsBehind(pos) ==
            LET sp == RFind(SubSeq(output, 1, pos), " ")
                start == IF IsSome(sp) THEN Unwrap(sp) + 1 ELSE 0
                slots == ParseU64(SubSeq(output, start + 1, pos))
            IN IF IsSome(slots) THEN Decimal(Unwrap(slots)) \o " slots behind"
               ELSE output
    IN
    IF is_firedancer
    THEN IF Contains(output, "running") THEN "Caught up" ELSE "Not running"
    ELSE IF Contains(output, "0 slot(s)") \/ Contains(output, "has caught up")
         THEN "Caught up"
    ELSE IF IsSome(Find(output, " slot(s) behind"))
         THEN SlotsBehind(Unwrap(Find(output, " slot(s) behind")))
    ELSE IF Contains(output, "bash:") /\ Contains(output, "line")
         THEN IF Contains(output, "command not found") \/ Contains(output, "No such file")
              THEN "CLI not found"
              ELSE "Command error"
    ELSE IF Contains(output, "Error") \/ Contains(output, "error")
         THEN IF Contains(output, "RPC") THEN "RPC Error"
              ELSE IF Contains(output, "connection") THEN "Connection Error"
              ELSE "Error"
    ELSE IF Trim(output) = "" THEN "Waiting..."
    ELSE RawLine(Trim(output))

\* The lines a catchup command prints. A progress line reports a slot
\* distance after some text; the distance is a numeral, or not one.
LineHeads == { "", "Node abc is ", "validator 7Kz has fallen " }
LineTails == { "", " (us:1 them:8)" }

BehindLine(head, count, tail) == head \o count \o " slot(s) behind" \o tail

Lines ==
    { BehindLine(head, Decimal(n), tail) :
        head \in LineHeads, n \in 0..MaxBehind, tail \in LineTails }
    \cup
    { BehindLine(head, count, tail) :
        head \in LineHeads, count \in {"many", "+7", "007", "-3"}, tail \in LineTails }
    \cup
    { "", "   ", " 7 slot(s) behind ",
      "Node abc has caught up (us: 1234, them: 1234)",
      "bash: line 1: solana: command not found",
      "bash: line 1: /opt/solana: No such file or directory",
      "bash: line 1: syntax",
      "Error: RPC request failed",
      "error: connection refused",
      "Error: unknown",
      "running", "fdctl is not running", "stopped",
      "Connecting to the cluster and waiting for the first slot",
      "Connecting to the cluster at the entrypoint",
      "short raw line" }

\* no call of parse_catchup_output is pending: the last one has returned
NoParseCall ==
    [output |-> "", is_firedancer |-> FALSE, result |-> Some("Waiting...")]

\* the calls of parse_catchup_output still to be made
ParseCalls ==
    { [output |-> line, is_firedancer |-> fd, result |-> None] :
        line \in Lines, fd \in BOOLEAN }

\* the i-th line a stream command prints
Line(i) == BehindLine("Node abc is ", Decimal(i), "")

\* ------------------------------------------------------------ startup state
\* detected_ssh_keys: which nodes' hosts have a key

Init ==
    /\ alert_config \in AlertConfigs
    /\ node_status \in [Validators -> StartupRoles]
    /\ rpc_failure_tracker = [v \in Validators |-> NewFailureTracker]
    /\ validator_health = [v \in Validators |-> NewNodeHealthStatus]
    /\ vote_data = [v \in Validators |-> None]
    /\ previous_last_slots = <<>>
    /\ increment_times = <<>>
    /\ last_vote_slot_times = [v \in Validators |-> None]
    /\ alert_tracker = [delinquency_tracker |-> NewAlertTracker,
                        rpc_failure_tracker |-> NewAlertTracker]
    /\ poller = PollerIdle
    /\ uiLock = "free"
    /\ orch = [o \in OrchIds |-> IdleOrch]
    /\ emergency_takeover_in_progress = FALSE
    /\ ui = [pc |-> "start", emergency_mode |-> FALSE, emergency_in_progress |-> FALSE,
             terminal_held |-> FALSE, ret |-> None, failed |-> FALSE]
    /\ should_quit = FALSE
    /\ view_state = "Status"
    /\ switch_confirmed = FALSE
    /\ key_events = <<>>
    \* the last key handled and the view it was handled in; how many times r
    \* was handled in the Status view with a refresh in flight since the last
    \* time none was in flight
    /\ key_hist = [key |-> "none", view |-> "Status", r_in_flight |-> 0]
    /\ validator_statuses =
           [v \in Validators |->
               [k \in Nodes |-> StartupNode(v, node_status[v][k])]]
    /\ remote \in { f \in [Validators -> [Nodes -> UNION { RemoteAnswers(v) : v \in Validators }]] :
                       \A v \in Validators, k \in Nodes : f[v][k] \in RemoteAnswers(v) }
    /\ is_refreshing = FALSE
    /\ field_refresh_states =
           [v \in Validators |-> [k \in Nodes |-> NewFieldRefreshState]]
    /\ refreshers = [r \in RefreshIds |-> IdleRefresher]
    /\ node_tasks = [v \in Validators |-> [k \in Nodes |-> NoNodeTasks]]
    /\ ssh = SshIdle
    /\ ssh_alert_tracker = NewAlertTracker
    /\ hist = [v \in Validators |-> NewHist]
    /\ detected_ssh_keys \in [Validators -> [Nodes -> BOOLEAN]]
    /\ ssh_health_data =
           [v \in Validators |->
               [k \in Nodes |-> [is_healthy |-> TRUE, last_success |-> Some(0),
                                 failure_start |-> None]]]
    /\ catchup_data =
           [v \in Validators |->
               [k \in Nodes |-> IF node_status[v][k] = "Standby"
                                THEN Some([status |-> "Initializing...",
                                           is_streaming |-> FALSE])
                                ELSE None]]
    \* every stream_catchup_for_node task at the top of its loop: no channel
    \* yet, no parser; sent counts the lines of the running stream, consumed
    \* lists the lines its parser has received (history)
    /\ streamer = [v \in Validators |-> [k \in Nodes |->
                       [pc |-> "start", chan |-> <<>>, tx_open |-> FALSE,
                        parser |-> FALSE, sent |-> 0, consumed |-> <<>>]]]
    /\ parse_call \in ParseCalls \cup {NoParseCall}

\* ------------------------------------------------------------- vote poller
\* alert_manager: Some iff alert_config is Some and enabled
AlertManagerPresent == alert_config.some /\ alert_config.enabled

\* v.as_ref().and_then(|d| d.recent_votes.last().map(|v| v.slot))
LastSlotOf(vd) == IF IsSome(vd) THEN Unwrap(vd) ELSE None

\* vec.get(idx).and_then(|&v| v)
Get(vec, idx) == IF idx \in DOMAIN vec THEN vec[idx] ELSE None

ShouldUpdateSlotTime(tracked, new_slot) ==
    IF IsSome(tracked) THEN Unwrap(tracked)[1] # new_slot ELSE TRUE

\* the changed-slot branch without its reset: the suppressor stays acknowledged
DelinquencyTrackerOnSlotChange_NoReset(tr, idx) == tr

\* alert_tracker.delinquency_tracker.reset(idx) on a changed slot
DelinquencyTrackerOnSlotChange(tr, idx) == AlertReset(tr, idx)

SecondsSinceVote(tracked) == Unwrap(tracked)[2]

DelinquencyDue(tracked) == SecondsSinceVote(tracked) >= DelinquencyThreshold

\* the branch condition: seconds_since_vote >= threshold
\*                       && alert_tracker.delinquency_tracker.should_send_alert(idx)
DelinquencyAlertDecided(tracked, idx) ==
    /\ AlertManagerPresent
    /\ IsSome(tracked)
    /\ DelinquencyDue(tracked)
    /\ AlertPermitted(alert_tracker.delinquency_tracker, idx)

\* the gate without its auto_failover_enabled test
AutoFailoverGate_NoAutoCheck(idx) ==
    /\ alert_config.some
    /\ alert_config.enabled
    /\ validator_health[idx].rpc_status.consecutive_failures = 0

\* the gate with a test of the SSH tracker added
AutoFailoverGate_SshCheck(idx) ==
    /\ alert_config.some
    /\ alert_config.enabled
    /\ alert_config.auto_failover_enabled
    /\ validator_health[idx].rpc_status.consecutive_failures = 0
    /\ validator_health[idx].ssh_status.consecutive_failures = 0

\* alert_config.enabled && alert_config.auto_failover_enabled
\*     && state.validator_health[idx].rpc_status.consecutive_failures == 0
AutoFailoverGate(idx) ==
    /\ alert_config.some
    /\ alert_config.enabled
    /\ alert_config.auto_failover_enabled
    /\ validator_health[idx].rpc_status.consecutive_failures = 0

NewIncrement(idx, new_slot) ==
    LET old == LastSlotOf(Get(vote_data, idx)) IN
    IF IsSome(old)
    THEN IF new_slot > Unwrap(old)
         THEN Some(0)
         ELSE LET existing == Get(increment_times, idx) IN
              IF IsSome(existing) /\ Unwrap(existing) < IncrementKeepSecs
              THEN existing ELSE None
    ELSE None

\* the threshold test of the RPC alert left out
RpcAlertDue_NoThreshold(t) == TRUE

\* seconds >= time_threshold, seconds being
\* tracker.seconds_since_first_failure().unwrap_or(0)
RpcAlertDue(t) ==
    LET s == seconds_since_first_failure(t) IN
    (IF IsSome(s) THEN Unwrap(s) ELSE 0) >= RpcFailureThreshold

PollerWake ==
    /\ ui.pc # "start"     \* spawn_background_tasks has run
    /\ poller.pc = "sleep"
    /\ poller' = [poller EXCEPT !.pc = "fetch", !.idx = 1]
    /\ UNCHANGED << alert_config, node_status, rpc_failure_tracker,
                    validator_health, vote_data, previous_last_slots, increment_times,
                    last_vote_slot_times, alert_tracker, uiLock, orch,
                    emergency_takeover_in_progress, ui, should_quit, view_state,
                    switch_confirmed, hist >>
    /\ UNCHANGED << refresh_vars, key_vars, ssh_vars,
                    config_vars, catchup_vars >>

AfterFetch(result) ==
    [poller EXCEPT !.new_vote_data = Append(@, result),
                   !.idx = IF poller.idx = NumValidators THEN 1 ELSE @ + 1,
                   !.pc = IF poller.idx = NumValidators THEN "update" ELSE "fetch"]

\* the counter zeroed by hand, first_failure_at and last_error left
RpcTrackerAfterSuccess_CounterOnly(idx) ==
    [rpc_failure_tracker[idx] EXCEPT !.consecutive_failures = 0]

\* record_success left out
RpcTrackerAfterSuccess_Kept(idx) == rpc_failure_tracker[idx]

\* state.rpc_failure_tracker[idx].record_success()
RpcTrackerAfterSuccess(idx) == record_success(rpc_failure_tracker[idx])

\* record_failure called on a tracker of its own, not the shared one
RpcTrackerAfterFailure_Fresh(idx) == record_failure(NewFailureTracker, "rpc error")

\* state.rpc_failure_tracker[idx].record_failure(e.to_string())
RpcTrackerAfterFailure(idx) == record_failure(rpc_failure_tracker[idx], "rpc error")

\* Ok(data): record_success under the write lock, push Some(data)
FetchOk(idx, data) ==
    /\ poller.pc = "fetch" /\ poller.idx = idx
    /\ uiLock = "free"
    /\ rpc_failure_tracker' =
           [rpc_failure_tracker EXCEPT ![idx] = RpcTrackerAfterSuccess(idx)]
    /\ poller' = AfterFetch(Some(data))
    /\ hist' = [hist EXCEPT ![idx].rpc_alert = FALSE, ![idx].rpc_past = FALSE]
    /\ UNCHANGED << alert_config, node_status, validator_health, vote_data,
                    previous_last_slots, increment_times, last_vote_slot_times,
                    alert_tracker, uiLock, orch, emergency_takeover_in_progress, ui,
                    should_quit, view_state, switch_confirmed >>
    /\ UNCHANGED << refresh_vars, key_vars, ssh_vars,
                    config_vars, catchup_vars >>

\* Err(e): record_failure and the RPC alert decision under the write lock,
\* the alert send (if an alert manager exists) after it, push None
FetchErr(idx) ==
    /\ poller.pc = "fetch" /\ poller.idx = idx
    /\ uiLock = "free"
    /\ rpc_failure_tracker[idx].consecutive_failures < MaxFailures
    /\ LET t == RpcTrackerAfterFailure(idx)
           should_alert == RpcAlertDue(t)
                           /\ AlertPermitted(alert_tracker.rpc_failure_tracker, idx)
           sent == should_alert /\ AlertManagerPresent
       IN /\ rpc_failure_tracker' = [rpc_failure_tracker EXCEPT ![idx] = t]
          /\ alert_tracker' =
                 IF should_alert
                 THEN [alert_tracker EXCEPT !.rpc_failure_tracker =
                                                AlertAcknowledged(@, idx)]
                 ELSE alert_tracker
          /\ hist' = [hist EXCEPT
                          ![idx].rpc_alert = sent,
                          ![idx].rpc_alert_at = IF sent THEN Some(0) ELSE @,
                          ![idx].rpc_past = @ \/ RpcAlertDue(t)]
    /\ poller' = AfterFetch(None)
    /\ UNCHANGED << alert_config, node_status, validator_health, vote_data,
                    previous_last_slots, increment_times, last_vote_slot_times,
                    uiLock, orch, emergency_takeover_in_progress, ui,
                    should_quit, view_state, switch_confirmed >>
    /\ UNCHANGED << refresh_vars, key_vars, ssh_vars,
                    config_vars, catchup_vars >>

\* the write guard kept after the last validator's turn
EndTurn_GuardKept(incs, sts) ==
    IF poller.idx = NumValidators
    THEN /\ previous_last_slots' = [v \in Validators |-> LastSlotOf(vote_data[v])]
         /\ vote_data' = poller.new_vote_data
         /\ increment_times' = incs
         /\ last_vote_slot_times' = sts
         /\ uiLock' = "poller"
         /\ poller' = PollerIdle
    ELSE /\ poller' = [poller EXCEPT !.pc = "update", !.idx = @ + 1,
                                     !.new_increments = incs, !.new_slot_times = sts]
         /\ uiLock' = "poller"
         /\ UNCHANGED << previous_last_slots, vote_data, increment_times,
                         last_vote_slot_times >>

\* The end of one validator's turn in the update loop: push the increment;
\* after the last validator, the new vectors replace the old ones and the
\* write guard is dropped.
EndTurn(incs, sts) ==
    IF poller.idx = NumValidators
    THEN /\ previous_last_slots' = [v \in Validators |-> LastSlotOf(vote_data[v])]
         /\ vote_data' = poller.new_vote_data
         /\ increment_times' = incs
         /\ last_vote_slot_times' = sts
         /\ uiLock' = "free"
         /\ poller' = PollerIdle
    ELSE /\ poller' = [poller EXCEPT !.pc = "update", !.idx = @ + 1,
                                     !.new_increments = incs, !.new_slot_times = sts]
         /\ uiLock' = "poller"
         /\ UNCHANGED << previous_last_slots, vote_data, increment_times,
                         last_vote_slot_times >>

\* the history of validator idx after a poll that observed `observed`
HistAfterPoll(idx, observed, tracked, reset, alert) ==
    LET h0 == hist[idx]
        same_run == IsSome(observed) /\ h0.run_slot = observed
        h1 == IF same_run THEN h0
              ELSE [h0 EXCEPT !.run_slot = observed, !.run_alerts = 0,
                              !.run_alert_at = None, !.run_spawns = 0]
        advanced == IsSome(observed) /\ IsSome(tracked)
                    /\ Unwrap(observed) > Unwrap(tracked)[1]
    IN [h1 EXCEPT !.reset = reset,
                  !.run_alerts = IF alert THEN Min(2, @ + 1) ELSE @,
                  !.run_alert_at = IF alert THEN Some(0) ELSE @,
                  !.stage = IF alert /\ @ = 0 THEN 1
                            ELSE IF alert /\ @ = 2 THEN 3
                            ELSE IF advanced /\ @ = 1 THEN 2
                            ELSE @]

\* One validator's turn of the update loop, under the write lock taken before
\* the first turn.  A turn that decides a delinquency alert stops at the
\* await of the alert send, the lock still held.
Update(idx) ==
    /\ poller.pc = "update" /\ poller.idx = idx
    /\ idx = 1 => uiLock = "free"
    /\ LET new_data == poller.new_vote_data[idx]
           new_last_slot == LastSlotOf(new_data)
           tracked == Get(last_vote_slot_times, idx)
       IN
       IF new_data = None
       THEN \* RPC failed: preserve the existing slot time
            /\ EndTurn(Append(poller.new_increments, None),
                       Append(poller.new_slot_times, tracked))
            /\ hist' = [hist EXCEPT ![idx] =
                            HistAfterPoll(idx, None, tracked, FALSE, FALSE)]
            /\ UNCHANGED alert_tracker
       ELSE IF new_last_slot = None
       THEN /\ EndTurn(Append(poller.new_increments, None),
                       Append(poller.new_slot_times, None))
            /\ hist' = [hist EXCEPT ![idx] =
                            HistAfterPoll(idx, None, tracked, FALSE, FALSE)]
            /\ UNCHANGED alert_tracker
       ELSE LET new_slot == Unwrap(new_last_slot) IN
            IF ShouldUpdateSlotTime(tracked, new_slot)
            THEN /\ alert_tracker' =
                        [alert_tracker EXCEPT !.delinquency_tracker =
                                                  DelinquencyTrackerOnSlotChange(@, idx)]
                 /\ EndTurn(Append(poller.new_increments, NewIncrement(idx, new_slot)),
                            Append(poller.new_slot_times, Some(<<new_slot, 0>>)))
                 /\ hist' = [hist EXCEPT ![idx] =
                                 HistAfterPoll(idx, new_last_slot, tracked, TRUE, FALSE)]
            ELSE IF DelinquencyAlertDecided(tracked, idx)
            THEN /\ alert_tracker' =
                        [alert_tracker EXCEPT !.delinquency_tracker =
                                                  AlertAcknowledged(@, idx)]
                 /\ poller' = [poller EXCEPT !.pc = "alert_send",
                                             !.new_slot_times = Append(@, tracked)]
                 /\ uiLock' = "poller"
                 /\ hist' = [hist EXCEPT ![idx] =
                                 HistAfterPoll(idx, new_last_slot, tracked, FALSE, TRUE)]
                 /\ UNCHANGED << previous_last_slots, vote_data, increment_times,
                                 last_vote_slot_times >>
            ELSE /\ EndTurn(Append(poller.new_increments, NewIncrement(idx, new_slot)),
                            Append(poller.new_slot_times, tracked))
                 /\ hist' = [hist EXCEPT ![idx] =
                                 HistAfterPoll(idx, new_last_slot, tracked, FALSE, FALSE)]
                 /\ UNCHANGED alert_tracker
    /\ UNCHANGED << alert_config, node_status, rpc_failure_tracker,
                    validator_health, orch, emergency_takeover_in_progress, ui,
                    should_quit, view_state, switch_confirmed >>
    /\ UNCHANGED << refresh_vars, key_vars, ssh_vars,
                    config_vars, catchup_vars >>

FreeOrchIds == { o \in OrchIds : orch[o].phase = "Idle" }

\* tokio::spawn(execute_emergency_failover(validator_status, ...))
SpawnFailover(idx) ==
    LET o == CHOOSE x \in FreeOrchIds : \A y \in FreeOrchIds : x <= y IN
    [orch EXCEPT ![o] = [phase |-> "Spawned", v |-> idx, timer |-> 0]]

\* send_delinquency_alert_with_health returned (Ok or Err, both only logged):
\* the auto-failover gate, then the increment, then the end of the turn.
AlertSendDone(idx, sent) ==
    /\ poller.pc = "alert_send" /\ poller.idx = idx
    /\ LET new_slot == Unwrap(LastSlotOf(poller.new_vote_data[idx])) IN
       /\ IF AutoFailoverGate(idx)
          THEN /\ FreeOrchIds # {}
               /\ orch' = SpawnFailover(idx)
               /\ hist' = [hist EXCEPT ![idx].run_spawns = Min(2, @ + 1)]
          ELSE UNCHANGED << orch, hist >>
       /\ EndTurn(Append(poller.new_increments, NewIncrement(idx, new_slot)),
                  poller.new_slot_times)
    /\ UNCHANGED << alert_config, node_status, rpc_failure_tracker,
                    validator_health, alert_tracker,
                    emergency_takeover_in_progress, ui, should_quit, view_state,
                    switch_confirmed >>
    /\ UNCHANGED << refresh_vars, key_vars, ssh_vars,
                    config_vars, catchup_vars >>

\* ------------------------------------------ emergency failover orchestrator
\* both an Active and a Standby node are found in nodes_with_status
CanIdentifyNodes(roles) ==
    /\ \E k \in DOMAIN roles : roles[k] = "Active"
    /\ \E k \in DOMAIN roles : roles[k] = "Standby"

\* the flag is set before the nodes are looked for
OrchStart_FlagFirst(o) ==
    /\ orch[o].phase = "Spawned"
    /\ emergency_takeover_in_progress' = TRUE
    /\ IF CanIdentifyNodes(node_status[orch[o].v])
       THEN orch' = [orch EXCEPT ![o].phase = "Suspending",
                                 ![o].timer = SuspendFrames]
       ELSE orch' = [orch EXCEPT ![o] = IdleOrch]
    /\ UNCHANGED << alert_config, node_status, rpc_failure_tracker,
                    validator_health, vote_data, previous_last_slots, increment_times,
                    last_vote_slot_times, alert_tracker, poller, uiLock, ui,
                    should_quit, view_state, switch_confirmed, hist >>
    /\ UNCHANGED << refresh_vars, key_vars, ssh_vars,
                    config_vars, catchup_vars >>

\* Idle -> Suspending: identify the nodes or return; set the flag; sleep 300 ms
OrchStart(o) ==
    /\ orch[o].phase = "Spawned"
    /\ IF CanIdentifyNodes(node_status[orch[o].v])
       THEN /\ emergency_takeover_in_progress' = TRUE
            /\ orch' = [orch EXCEPT ![o].phase = "Suspending",
                                    ![o].timer = SuspendFrames]
       ELSE /\ orch' = [orch EXCEPT ![o] = IdleOrch]
            /\ UNCHANGED emergency_takeover_in_progress
    /\ UNCHANGED << alert_config, node_status, rpc_failure_tracker,
                    validator_health, vote_data, previous_last_slots, increment_times,
                    last_vote_slot_times, alert_tracker, poller, uiLock, ui,
                    should_quit, view_state, switch_confirmed, hist >>
    /\ UNCHANGED << refresh_vars, key_vars, ssh_vars,
                    config_vars, catchup_vars >>

\* Suspending -> Executing: the sleep is over, execute_emergency_takeover starts
OrchInvoke(o) ==
    /\ orch[o].phase = "Suspending"
    /\ orch[o].timer = 0
    /\ orch' = [orch EXCEPT ![o].phase = "Executing"]
    /\ UNCHANGED << alert_config, node_status, rpc_failure_tracker,
                    validator_health, vote_data, previous_last_slots, increment_times,
                    last_vote_slot_times, alert_tracker, poller, uiLock,
                    emergency_takeover_in_progress, ui, should_quit, view_state,
                    switch_confirmed, hist >>
    /\ UNCHANGED << refresh_vars, key_vars, ssh_vars,
                    config_vars, catchup_vars >>

\* the switch returned an error: the task ends there, the flag stays set
OrchSwitchReturns_ErrEndsTask(o, ok) ==
    /\ orch[o].phase = "Executing"
    /\ orch' = IF ok THEN [orch EXCEPT ![o].phase = "Settling"]
               ELSE [orch EXCEPT ![o] = IdleOrch]
    /\ UNCHANGED << alert_config, node_status, rpc_failure_tracker,
                    validator_health, vote_data, previous_last_slots, increment_times,
                    last_vote_slot_times, alert_tracker, poller, uiLock,
                    emergency_takeover_in_progress, ui, should_quit, view_state,
                    switch_confirmed, hist >>
    /\ UNCHANGED << refresh_vars, key_vars, ssh_vars,
                    config_vars, catchup_vars >>

\* Executing -> Settling: the switch returned Ok or Err (an Err is printed)
OrchSwitchReturns(o, ok) ==
    /\ orch[o].phase = "Executing"
    /\ orch' = [orch EXCEPT ![o].phase = "Settling"]
    /\ UNCHANGED << alert_config, node_status, rpc_failure_tracker,
                    validator_health, vote_data, previous_last_slots, increment_times,
                    last_vote_slot_times, alert_tracker, poller, uiLock,
                    emergency_takeover_in_progress, ui, should_quit, view_state,
                    switch_confirmed, hist >>
    /\ UNCHANGED << refresh_vars, key_vars, ssh_vars,
                    config_vars, catchup_vars >>

\* Settling -> Idle: the 3 s sleep is over, clear the flag
OrchClear(o) ==
    /\ orch[o].phase = "Settling"
    /\ emergency_takeover_in_progress' = FALSE
    /\ orch' = [orch EXCEPT ![o] = IdleOrch]
    /\ UNCHANGED << alert_config, node_status, rpc_failure_tracker,
                    validator_health, vote_data, previous_last_slots, increment_times,
                    last_vote_slot_times, alert_tracker, poller, uiLock, ui,
                    should_quit, view_state, switch_confirmed, hist >>
    /\ UNCHANGED << refresh_vars, key_vars, ssh_vars,
                    config_vars, catchup_vars >>

\* ---------------------------------------------------------- field refresher
FreeRefreshIds == { r \in RefreshIds : refreshers[r].phase = "Idle" }

\* no second refresh_all_fields while a refresh is in flight
SpawnRefreshAll_OnlyWhenIdle ==
    IF \/ \E r \in RefreshIds : refreshers[r].phase # "Idle"
       \/ \E v \in Validators, k \in Nodes : node_tasks[v][k] # NoNodeTasks
    THEN refreshers
    ELSE [refreshers EXCEPT ![1] = [phase |-> "Spawned", rv |-> {}]]

\* tokio::spawn(refresh_all_fields(app_state, ui_state))
SpawnRefreshAll ==
    LET r == CHOOSE x \in FreeRefreshIds : \A y \in FreeRefreshIds : x <= y IN
    [refreshers EXCEPT ![r] = [phase |-> "Spawned", rv |-> {}]]

\* refresh_all_fields: read the validator count, spawn refresh_validator_fields
\* for every validator
RefreshAllStart(r) ==
    /\ refreshers[r].phase = "Spawned"
    /\ uiLock = "free"
    /\ refreshers' = [refreshers EXCEPT ![r] = [phase |-> "Joining", rv |-> Validators]]
    /\ UNCHANGED << alert_config, node_status, rpc_failure_tracker,
                    validator_health, vote_data, previous_last_slots, increment_times,
                    last_vote_slot_times, alert_tracker, poller, uiLock, orch,
                    emergency_takeover_in_progress, ui, should_quit, view_state,
                    switch_confirmed, key_vars, validator_statuses, remote,
                    is_refreshing, field_refresh_states, node_tasks, ssh_vars, hist,
                    config_vars, catchup_vars >>

\* refresh_validator_fields: snapshot the pair under the read lock, spawn the
\* status/identity task and the version task of both nodes, return
RefreshValidator(r, v) ==
    /\ refreshers[r].phase = "Joining"
    /\ v \in refreshers[r].rv
    /\ uiLock = "free"
    /\ refreshers' = [refreshers EXCEPT ![r].rv = @ \ {v}]
    /\ node_tasks' = [node_tasks EXCEPT ![v] =
                          [k \in Nodes |->
                              [status_and_identity |-> @[k].status_and_identity + 1,
                               version |-> @[k].version + 1]]]
    /\ UNCHANGED << alert_config, node_status, rpc_failure_tracker,
                    validator_health, vote_data, previous_last_slots, increment_times,
                    last_vote_slot_times, alert_tracker, poller, uiLock, orch,
                    emergency_takeover_in_progress, ui, should_quit, view_state,
                    switch_confirmed, key_vars, validator_statuses, remote,
                    is_refreshing, field_refresh_states, ssh_vars, hist,
                    config_vars, catchup_vars >>

\* refresh_all_fields: every handle joined, clear the global flag
RefreshAllEnd(r) ==
    /\ refreshers[r].phase = "Joining"
    /\ refreshers[r].rv = {}
    /\ uiLock = "free"
    /\ is_refreshing' = FALSE
    /\ refreshers' = [refreshers EXCEPT ![r] = IdleRefresher]
    /\ UNCHANGED << alert_config, node_status, rpc_failure_tracker,
                    validator_health, vote_data, previous_last_slots, increment_times,
                    last_vote_slot_times, alert_tracker, poller, uiLock, orch,
                    emergency_takeover_in_progress, ui, should_quit, view_state,
                    switch_confirmed, key_vars, validator_statuses, remote,
                    field_refresh_states, node_tasks, ssh_vars, hist,
                    config_vars, catchup_vars >>

\* the role without the comparison: Active whenever an identity is known
ExtractedStatus_NoComparison(v, identity) ==
    IF IsSome(identity) THEN "Active" ELSE "Unknown"

\* the role extracted with an identity: Active iff it is the validator's own
ExtractedStatus(v, identity) ==
    IF IsSome(identity)
    THEN IF Unwrap(identity) = IdentityPubkey(v) THEN "Active" ELSE "Standby"
    ELSE "Unknown"

\* the sub-task clears every flag of its node, version_refreshing included
RefreshNodeStatusAndIdentity_AllFlags(v, k) ==
    /\ node_tasks[v][k].status_and_identity > 0
    /\ uiLock = "free"
    /\ LET current_identity == remote[v][k] IN
       validator_statuses' =
           [validator_statuses EXCEPT
               ![v][k].status = ExtractedStatus(v, current_identity),
               ![v][k].current_identity = current_identity]
    /\ field_refresh_states' =
           [field_refresh_states EXCEPT ![v][k] = NewFieldRefreshState]
    /\ node_tasks' = [node_tasks EXCEPT ![v][k].status_and_identity = @ - 1]
    /\ UNCHANGED << alert_config, node_status, rpc_failure_tracker,
                    validator_health, vote_data, previous_last_slots, increment_times,
                    last_vote_slot_times, alert_tracker, poller, uiLock, orch,
                    emergency_takeover_in_progress, ui, should_quit, view_state,
                    switch_confirmed, key_vars, remote, is_refreshing, refreshers,
                    ssh_vars, hist,
                    config_vars, catchup_vars >>

\* refresh_node_status_and_identity: the answer of the node, then status and
\* identity written and both flags cleared under one write lock
RefreshNodeStatusAndIdentity(v, k) ==
    /\ node_tasks[v][k].status_and_identity > 0
    /\ uiLock = "free"
    /\ LET current_identity == remote[v][k] IN
       validator_statuses' =
           [validator_statuses EXCEPT
               ![v][k].status = ExtractedStatus(v, current_identity),
               ![v][k].current_identity = current_identity]
    /\ field_refresh_states' =
           [field_refresh_states EXCEPT ![v][k].status_refreshing = FALSE,
                                        ![v][k].identity_refreshing = FALSE]
    /\ node_tasks' = [node_tasks EXCEPT ![v][k].status_and_identity = @ - 1]
    /\ UNCHANGED << alert_config, node_status, rpc_failure_tracker,
                    validator_health, vote_data, previous_last_slots, increment_times,
                    last_vote_slot_times, alert_tracker, poller, uiLock, orch,
                    emergency_takeover_in_progress, ui, should_quit, view_state,
                    switch_confirmed, key_vars, remote, is_refreshing, refreshers,
                    ssh_vars, hist,
                    config_vars, catchup_vars >>

\* the version string the node's executable reports
RemoteVersion == Some("version")

\* the version is written, version_refreshing is left as it is
RefreshNodeVersion_FlagKept(v, k) ==
    /\ node_tasks[v][k].version > 0
    /\ uiLock = "free"
    /\ validator_statuses' = [validator_statuses EXCEPT ![v][k].version = RemoteVersion]
    /\ node_tasks' = [node_tasks EXCEPT ![v][k].version = @ - 1]
    /\ UNCHANGED << alert_config, node_status, rpc_failure_tracker,
                    validator_health, vote_data, previous_last_slots, increment_times,
                    last_vote_slot_times, alert_tracker, poller, uiLock, orch,
                    emergency_takeover_in_progress, ui, should_quit, view_state,
                    switch_confirmed, key_vars, remote, is_refreshing, refreshers,
                    field_refresh_states, ssh_vars, hist,
                    config_vars, catchup_vars >>

\* refresh_node_version: version written and its flag cleared
RefreshNodeVersion(v, k) ==
    /\ node_tasks[v][k].version > 0
    /\ uiLock = "free"
    /\ validator_statuses' = [validator_statuses EXCEPT ![v][k].version = RemoteVersion]
    /\ field_refresh_states' =
           [field_refresh_states EXCEPT ![v][k].version_refreshing = FALSE]
    /\ node_tasks' = [node_tasks EXCEPT ![v][k].version = @ - 1]
    /\ UNCHANGED << alert_config, node_status, rpc_failure_tracker,
                    validator_health, vote_data, previous_last_slots, increment_times,
                    last_vote_slot_times, alert_tracker, poller, uiLock, orch,
                    emergency_takeover_in_progress, ui, should_quit, view_state,
                    switch_confirmed, key_vars, remote, is_refreshing, refreshers,
                    ssh_vars, hist,
                    config_vars, catchup_vars >>

\* ------------------------------------------------------------- render loop
\* "q" is q or Esc, "ctrl_c" is Ctrl-C, "none" is any key without an arm
Keys == {"q", "ctrl_c", "s", "y", "r", "none"}

\* the refreshes in flight: the refresh_all_fields tasks not yet returned and
\* the most refresh_node_* tasks any one node still has
RefreshesInFlight ==
    LET counts == { node_tasks[v][k].status_and_identity : v \in Validators, k \in Nodes }
                  \cup { node_tasks[v][k].version : v \in Validators, k \in Nodes }
    IN Cardinality({ r \in RefreshIds : refreshers[r].phase # "Idle" })
       + (CHOOSE c \in counts : \A d \in counts : d <= c)

\* the key may spawn a refresh when it is handled: r, or q once the view is
\* Switch
MaySpawnRefresh(key) ==
    \/ key = "r"
    \/ key = "q" /\ (view_state = "Switch" \/ key_events # <<>>)

\* the operator presses a key: it waits in the terminal until event::read
KeyPress(key) ==
    /\ ui.pc \notin {"start", "exited"}
    /\ Len(key_events) < MaxKeyEvents
    /\ MaySpawnRefresh(key) => RefreshesInFlight + Len(key_events) < MaxRefresh
    /\ key_events' = Append(key_events, key)
    /\ UNCHANGED key_hist
    /\ UNCHANGED << alert_config, node_status, rpc_failure_tracker,
                    validator_health, vote_data, previous_last_slots, increment_times,
                    last_vote_slot_times, alert_tracker, poller, uiLock, orch,
                    emergency_takeover_in_progress, ui, should_quit, view_state,
                    switch_confirmed, refresh_vars, ssh_vars, hist,
                    config_vars, catchup_vars >>

\* run_enhanced_ui before its loop: raw mode and alternate screen, the
\* background tasks, every refresh flag set, refresh_all_fields spawned
UIStart ==
    /\ ui.pc = "start"
    /\ uiLock = "free"
    /\ ui' = [ui EXCEPT !.pc = "loop", !.terminal_held = TRUE]
    /\ field_refresh_states' =
           [v \in Validators |-> [k \in Nodes |-> AllRefreshing]]
    /\ refreshers' = SpawnRefreshAll
    /\ UNCHANGED << alert_config, node_status, rpc_failure_tracker,
                    validator_health, vote_data, previous_last_slots, increment_times,
                    last_vote_slot_times, alert_tracker, poller, uiLock, orch,
                    emergency_takeover_in_progress, should_quit, view_state,
                    switch_confirmed, key_vars, validator_statuses, remote,
                    is_refreshing, node_tasks, ssh_vars, hist,
                    config_vars, catchup_vars >>

\* the top of an iteration: the quit check, then the emergency flag is sampled
\* and the terminal transition applied
UILoop ==
    /\ ui.pc = "loop"
    /\ IF should_quit
       THEN ui' = [ui EXCEPT !.pc = "exited", !.terminal_held = FALSE,
                             !.ret = Some(switch_confirmed)]
       ELSE LET eip == emergency_takeover_in_progress
                entering == eip /\ ~ui.emergency_mode
                leaving == ~eip /\ ui.emergency_mode
            IN ui' = [ret |-> None, failed |-> FALSE,
                      pc |-> IF eip THEN "tick" ELSE "keys",
                      emergency_in_progress |-> eip,
                      emergency_mode |-> IF entering THEN TRUE
                                         ELSE IF leaving THEN FALSE
                                         ELSE ui.emergency_mode,
                      terminal_held |-> IF entering THEN FALSE
                                        ELSE IF leaving THEN TRUE
                                        ELSE ui.terminal_held]
    /\ UNCHANGED << alert_config, node_status, rpc_failure_tracker,
                    validator_health, vote_data, previous_last_slots, increment_times,
                    last_vote_slot_times, alert_tracker, poller, uiLock, orch,
                    emergency_takeover_in_progress, should_quit, view_state,
                    switch_confirmed, hist >>
    /\ UNCHANGED << refresh_vars, key_vars, ssh_vars,
                    config_vars, catchup_vars >>

\* run_enhanced_ui returns Err through a `?`: nothing after the failed call
\* runs, everything but the render loop is left alone
ReturnedErr(held) ==
    [ui EXCEPT !.pc = "exited", !.failed = TRUE, !.terminal_held = held]

\* A terminal call at the top of an iteration fails: one of the restore
\* after the quit check, of the release on entering emergency mode or of the
\* take-over on leaving it. The calls before the failed one have had their
\* effect: raw mode or the alternate screen may be on (held) or both off.
UILoopErr(held) ==
    /\ ui.pc = "loop"
    /\ \/ should_quit /\ (held => ui.terminal_held)
       \/ /\ ~should_quit
          /\ emergency_takeover_in_progress /\ ~ui.emergency_mode
          /\ (held => ui.terminal_held)
       \/ /\ ~should_quit
          /\ ~emergency_takeover_in_progress /\ ui.emergency_mode
    /\ ui' = ReturnedErr(held)
    /\ UNCHANGED << alert_config, node_status, rpc_failure_tracker,
                    validator_health, vote_data, previous_last_slots, increment_times,
                    last_vote_slot_times, alert_tracker, poller, uiLock, orch,
                    emergency_takeover_in_progress, should_quit, view_state,
                    switch_confirmed, hist >>
    /\ UNCHANGED << refresh_vars, key_vars, ssh_vars, config_vars, catchup_vars >>

\* event::poll, event::read or handle_key_event fails
UIKeysErr ==
    /\ ui.pc = "keys"
    /\ ui' = ReturnedErr(ui.terminal_held)
    /\ UNCHANGED << alert_config, node_status, rpc_failure_tracker,
                    validator_health, vote_data, previous_last_slots, increment_times,
                    last_vote_slot_times, alert_tracker, poller, uiLock, orch,
                    emergency_takeover_in_progress, should_quit, view_state,
                    switch_confirmed, hist >>
    /\ UNCHANGED << refresh_vars, key_vars, ssh_vars, config_vars, catchup_vars >>

\* terminal.draw fails, both read guards are dropped by the return
UIDrawErr ==
    /\ ui.pc = "draw"
    /\ uiLock = "free"
    /\ ui' = ReturnedErr(ui.terminal_held)
    /\ UNCHANGED << alert_config, node_status, rpc_failure_tracker,
                    validator_health, vote_data, previous_last_slots, increment_times,
                    last_vote_slot_times, alert_tracker, poller, uiLock, orch,
                    emergency_takeover_in_progress, should_quit, view_state,
                    switch_confirmed, hist >>
    /\ UNCHANGED << refresh_vars, key_vars, ssh_vars, config_vars, catchup_vars >>

\* q / Esc quits in every view
LeavesSwitchView_Never(key) == FALSE

\* KeyCode::Char('q') | KeyCode::Esc with current_view == ViewState::Switch
LeavesSwitchView(key) == key = "q" /\ view_state = "Switch"

\* y confirms in every view
ConfirmsSwitch_AnyView(key) == key = "y"

\* KeyCode::Char('y') | KeyCode::Char('Y') with current_view == ViewState::Switch
ConfirmsSwitch(key) == key = "y" /\ view_state = "Switch"

\* handle_key_event(key, ..): what one key does to the shared state
handle_key_event(key) ==
    CASE key = "q" ->
           IF LeavesSwitchView(key)
           THEN /\ view_state' = "Status"
                /\ refreshers' = SpawnRefreshAll
                /\ UNCHANGED << should_quit, switch_confirmed, is_refreshing,
                                field_refresh_states >>
           ELSE /\ should_quit' = TRUE
                /\ UNCHANGED << view_state, switch_confirmed, is_refreshing,
                                field_refresh_states, refreshers >>
      [] key = "ctrl_c" ->
           /\ should_quit' = TRUE
           /\ UNCHANGED << view_state, switch_confirmed, is_refreshing,
                           field_refresh_states, refreshers >>
      [] key = "s" ->
           /\ view_state' = "Switch"
           /\ UNCHANGED << should_quit, switch_confirmed, is_refreshing,
                           field_refresh_states, refreshers >>
      [] key = "y" ->
           IF ConfirmsSwitch(key)
           THEN /\ switch_confirmed' = TRUE
                /\ should_quit' = TRUE
                /\ UNCHANGED << view_state, is_refreshing, field_refresh_states,
                                refreshers >>
           ELSE UNCHANGED << should_quit, view_state, switch_confirmed,
                             is_refreshing, field_refresh_states, refreshers >>
      [] key = "r" ->
           IF view_state = "Status"
           THEN /\ uiLock = "free"
                /\ is_refreshing' = TRUE
                /\ field_refresh_states' =
                       [v \in Validators |-> [k \in Nodes |-> AllRefreshing]]
                /\ refreshers' = SpawnRefreshAll
                /\ UNCHANGED << should_quit, view_state, switch_confirmed >>
           ELSE UNCHANGED << should_quit, view_state, switch_confirmed,
                             is_refreshing, field_refresh_states, refreshers >>
      [] OTHER -> UNCHANGED << should_quit, view_state, switch_confirmed,
                               is_refreshing, field_refresh_states, refreshers >>

\* event::poll(10 ms), event::read and handle_key_event: at most one key per
\* iteration
UIKeys ==
    /\ ui.pc = "keys"
    /\ ui' = [ui EXCEPT !.pc = "draw"]
    /\ IF key_events = <<>>
       THEN UNCHANGED << key_events, key_hist, should_quit, view_state,
                         switch_confirmed, is_refreshing, field_refresh_states,
                         refreshers >>
       ELSE /\ key_events' = Tail(key_events)
            /\ handle_key_event(Head(key_events))
            /\ key_hist' =
                   [key |-> Head(key_events), view |-> view_state,
                    r_in_flight |->
                        IF Head(key_events) = "r" /\ view_state = "Status"
                        THEN IF RefreshesInFlight > 0
                             THEN Min(MaxRefresh, key_hist.r_in_flight + 1)
                             ELSE 0
                        ELSE key_hist.r_in_flight]
    /\ UNCHANGED << alert_config, node_status, rpc_failure_tracker,
                    validator_health, vote_data, previous_last_slots, increment_times,
                    last_vote_slot_times, alert_tracker, poller, uiLock, orch,
                    emergency_takeover_in_progress, validator_statuses,
                    remote, node_tasks, ssh_vars, hist,
                    config_vars, catchup_vars >>

\* the frame drawn without taking the ui_state read lock
UIDraw_NoLock ==
    /\ ui.pc = "draw"
    /\ ui' = [ui EXCEPT !.pc = "tick"]
    /\ UNCHANGED << alert_config, node_status, rpc_failure_tracker,
                    validator_health, vote_data, previous_last_slots, increment_times,
                    last_vote_slot_times, alert_tracker, poller, uiLock, orch,
                    emergency_takeover_in_progress, should_quit, view_state,
                    switch_confirmed, hist >>
    /\ UNCHANGED << refresh_vars, key_vars, ssh_vars,
                    config_vars, catchup_vars >>

\* ui_state.read(), view_state.read(), terminal.draw, both guards dropped
UIDraw ==
    /\ ui.pc = "draw"
    /\ uiLock = "free"
    /\ ui' = [ui EXCEPT !.pc = "tick"]
    /\ UNCHANGED << alert_config, node_status, rpc_failure_tracker,
                    validator_health, vote_data, previous_last_slots, increment_times,
                    last_vote_slot_times, alert_tracker, poller, uiLock, orch,
                    emergency_takeover_in_progress, should_quit, view_state,
                    switch_confirmed, hist >>
    /\ UNCHANGED << refresh_vars, key_vars, ssh_vars,
                    config_vars, catchup_vars >>

\* --------------------------------------------------------------- SSH prober
SshAlertDue(t) ==
    LET s == seconds_since_first_failure(t) IN
    (IF IsSome(s) THEN Unwrap(s) ELSE 0) >= SshFailureThreshold

\* The Instants of an SshHealthStatus are compared with nothing: the model
\* keeps their age in probe rounds, 0 for an Instant taken in the running
\* round (or since the last one), 1 for an earlier one.
AgedByRound(h) ==
    [h EXCEPT !.last_success = IF IsSome(@) THEN Some(1) ELSE None,
              !.failure_start = IF IsSome(@) THEN Some(1) ELSE None]

\* a probe answered
SshHealthAfterSuccess ==
    [is_healthy |-> TRUE, last_success |-> Some(0), failure_start |-> None]

\* failure_start of a failed probe: now at the first failure, else kept
FailureStartAfterFailure(current) ==
    IF current.is_healthy THEN Some(0) ELSE current.failure_start

\* a probe failed, current being the node's entry of ssh_health_data
SshHealthAfterFailure(current) ==
    [is_healthy |-> FALSE,
     last_success |-> current.last_success,
     failure_start |-> FailureStartAfterFailure(current)]

\* interval.tick() returns: a round starts with an empty new_ssh_health_data
SshWake ==
    /\ ui.pc # "start"     \* spawn_background_tasks has run
    /\ ssh.pc = "sleep"
    /\ ssh' = [pc |-> "probe", idx |-> 1, node_pair |-> [k \in Nodes |-> NewSshHealthStatus],
               new_ssh_health_data |-> <<>>]
    /\ ssh_health_data' =
           [v \in Validators |-> [k \in Nodes |-> AgedByRound(ssh_health_data[v][k])]]
    /\ UNCHANGED << alert_config, node_status, rpc_failure_tracker,
                    validator_health, vote_data, previous_last_slots, increment_times,
                    last_vote_slot_times, alert_tracker, poller, uiLock, orch,
                    emergency_takeover_in_progress, ui, should_quit, view_state,
                    switch_confirmed, refresh_vars, key_vars, ssh_alert_tracker,
                    hist,
                    config_vars, catchup_vars >>

\* node 0 of validator idx is done: on to its node 1
SshAfterNode0(status) ==
    [ssh EXCEPT !.pc = "probe1", !.node_pair[1] = status]

\* node 1 of validator idx is done: node_pair is pushed, on to the next
\* validator or to the commit
SshAfterProbe(status) ==
    [pc |-> IF ssh.idx = NumValidators THEN "commit" ELSE "probe",
     idx |-> IF ssh.idx = NumValidators THEN 0 ELSE ssh.idx + 1,
     node_pair |-> [k \in Nodes |-> NewSshHealthStatus],
     new_ssh_health_data |->
         Append(ssh.new_ssh_health_data, [ssh.node_pair EXCEPT ![2] = status])]

\* node 0 answers "true": ssh_status.record_success under the write lock
SshProbeOk(idx) ==
    /\ ssh.pc = "probe" /\ ssh.idx = idx
    /\ detected_ssh_keys[idx][1]
    /\ uiLock = "free"
    /\ validator_health' =
           [validator_health EXCEPT ![idx].ssh_status = record_success(@)]
    /\ ssh' = SshAfterNode0(SshHealthAfterSuccess)
    /\ UNCHANGED << alert_config, node_status, rpc_failure_tracker, vote_data,
                    previous_last_slots, increment_times, last_vote_slot_times,
                    alert_tracker, poller, uiLock, orch,
                    emergency_takeover_in_progress, ui, should_quit, view_state,
                    switch_confirmed, refresh_vars, key_vars, ssh_alert_tracker,
                    ssh_health_data, hist,
                    config_vars, catchup_vars >>

\* node 0 does not answer: ssh_status.record_failure and the SSH alert
\* decision under the write lock
SshProbeErr(idx) ==
    /\ ssh.pc = "probe" /\ ssh.idx = idx
    /\ detected_ssh_keys[idx][1]
    /\ uiLock = "free"
    /\ validator_health[idx].ssh_status.consecutive_failures < MaxFailures
    /\ LET t == record_failure(validator_health[idx].ssh_status, "ssh error")
           should_alert == SshAlertDue(t) /\ AlertPermitted(ssh_alert_tracker, idx)
       IN /\ validator_health' = [validator_health EXCEPT ![idx].ssh_status = t]
          /\ ssh_alert_tracker' =
                 IF should_alert THEN AlertAcknowledged(ssh_alert_tracker, idx)
                 ELSE ssh_alert_tracker
    /\ ssh' = SshAfterNode0(SshHealthAfterFailure(ssh_health_data[idx][1]))
    /\ UNCHANGED << alert_config, node_status, rpc_failure_tracker, vote_data,
                    previous_last_slots, increment_times, last_vote_slot_times,
                    alert_tracker, poller, uiLock, orch,
                    emergency_takeover_in_progress, ui, should_quit, view_state,
                    switch_confirmed, refresh_vars, key_vars, ssh_health_data, hist,
                    config_vars, catchup_vars >>

\* node 1 answers "true": the node-1 part of a turn changes only the prober
SshProbeNode1Ok(idx) ==
    /\ ssh.pc = "probe1" /\ ssh.idx = idx
    /\ detected_ssh_keys[idx][2]
    /\ ssh' = SshAfterProbe(SshHealthAfterSuccess)
    /\ UNCHANGED << alert_config, node_status, rpc_failure_tracker,
                    validator_health, vote_data, previous_last_slots, increment_times,
                    last_vote_slot_times, alert_tracker, poller, uiLock, orch,
                    emergency_takeover_in_progress, ui, should_quit, view_state,
                    switch_confirmed, refresh_vars, key_vars, ssh_alert_tracker,
                    ssh_health_data, hist, config_vars, catchup_vars >>

\* node 1 does not answer
SshProbeNode1Err(idx) ==
    /\ ssh.pc = "probe1" /\ ssh.idx = idx
    /\ detected_ssh_keys[idx][2]
    /\ ssh' = SshAfterProbe(SshHealthAfterFailure(ssh_health_data[idx][2]))
    /\ UNCHANGED << alert_config, node_status, rpc_failure_tracker,
                    validator_health, vote_data, previous_last_slots, increment_times,
                    last_vote_slot_times, alert_tracker, poller, uiLock, orch,
                    emergency_takeover_in_progress, ui, should_quit, view_state,
                    switch_confirmed, refresh_vars, key_vars, ssh_alert_tracker,
                    ssh_health_data, hist, config_vars, catchup_vars >>

\* no key was detected for the host of node k: the node is not probed and its
\* entry of node_pair stays as it was built
SshNoKey(idx, k) ==
    /\ ~detected_ssh_keys[idx][k]
    /\ ssh.idx = idx
    /\ \/ k = 1 /\ ssh.pc = "probe" /\ ssh' = SshAfterNode0(ssh.node_pair[1])
       \/ k = 2 /\ ssh.pc = "probe1" /\ ssh' = SshAfterProbe(ssh.node_pair[2])
    /\ UNCHANGED << alert_config, node_status, rpc_failure_tracker,
                    validator_health, vote_data, previous_last_slots, increment_times,
                    last_vote_slot_times, alert_tracker, poller, uiLock, orch,
                    emergency_takeover_in_progress, ui, should_quit, view_state,
                    switch_confirmed, refresh_vars, key_vars, ssh_alert_tracker,
                    ssh_health_data, hist, config_vars, catchup_vars >>

\* the new ssh_health_data stored under the write lock
SshCommit ==
    /\ ssh.pc = "commit"
    /\ uiLock = "free"
    /\ ssh_health_data' = [v \in Validators |-> ssh.new_ssh_health_data[v]]
    /\ ssh' = SshIdle
    /\ UNCHANGED << alert_config, node_status, rpc_failure_tracker,
                    validator_health, vote_data, previous_last_slots, increment_times,
                    last_vote_slot_times, alert_tracker, poller, uiLock, orch,
                    emergency_takeover_in_progress, ui, should_quit, view_state,
                    switch_confirmed, refresh_vars, key_vars, ssh_alert_tracker,
                    hist,
                    config_vars, catchup_vars >>

\* -------------------------------------------------------- catchup streamer
\* what a step of a streamer or of its parser leaves alone
StreamerFrame ==
    UNCHANGED << alert_config, node_status, rpc_failure_tracker,
                 validator_health, vote_data, previous_last_slots, increment_times,
                 last_vote_slot_times, alert_tracker, poller, uiLock, orch,
                 emergency_takeover_in_progress, ui, should_quit, view_state,
                 switch_confirmed, refresh_vars, key_vars, ssh_vars, hist,
                 config_vars, parse_call >>

\* the nodes are Agave/Jito nodes
IsFiredancer(v, k) == FALSE

\* The top of the loop: the channel is created, execute_command_streaming is
\* started with its sender and the parser is spawned on its receiver. The
\* task was spawned for a node whose host has a key; the parser of the
\* stream before has ended.
StreamStart(v, k) ==
    /\ ui.pc # "start"     \* spawn_background_tasks has run
    /\ detected_ssh_keys[v][k]
    /\ streamer[v][k].pc = "start"
    /\ ~streamer[v][k].parser
    /\ streamer' = [streamer EXCEPT ![v][k] =
           [pc |-> "streaming", chan |-> <<>>, tx_open |-> TRUE, parser |-> TRUE,
            sent |-> 0, consumed |-> <<>>]]
    /\ UNCHANGED catchup_data
    /\ StreamerFrame

\* the command prints a line and the stream sends it: the send returns once
\* the channel has room
StreamSend(v, k) ==
    /\ streamer[v][k].pc = "streaming"
    /\ streamer[v][k].sent < MaxLines
    /\ Len(streamer[v][k].chan) < ChannelCapacity
    /\ streamer' = [streamer EXCEPT ![v][k] =
           [@ EXCEPT !.chan = Append(@, Line(streamer[v][k].sent + 1)),
                     !.sent = @ + 1]]
    /\ UNCHANGED catchup_data
    /\ StreamerFrame

\* the select ends the parser with the stream
StreamEnd_ParserAborted(v, k) ==
    /\ streamer[v][k].pc = "streaming"
    /\ streamer' = [streamer EXCEPT ![v][k] =
           [@ EXCEPT !.pc = "mark", !.tx_open = FALSE, !.parser = FALSE]]
    /\ UNCHANGED catchup_data
    /\ StreamerFrame

\* the command ends, with a result or an error: the select returns and the
\* stream's sender is gone, the parser runs on
StreamEnd(v, k) ==
    /\ streamer[v][k].pc = "streaming"
    /\ streamer' = [streamer EXCEPT ![v][k] =
           [@ EXCEPT !.pc = "mark", !.tx_open = FALSE]]
    /\ UNCHANGED catchup_data
    /\ StreamerFrame

\* the parser receives a line: trimmed, parsed, stored under the write lock
ProcessLine(v, k) ==
    /\ streamer[v][k].parser
    /\ streamer[v][k].chan # <<>>
    /\ uiLock = "free"
    /\ LET line == Head(streamer[v][k].chan)
           last_output == Trim(line)
       IN /\ catchup_data' = [catchup_data EXCEPT ![v][k] =
                 Some([status |-> parse_catchup_output(last_output, IsFiredancer(v, k)),
                       is_streaming |-> TRUE])]
          /\ streamer' = [streamer EXCEPT ![v][k] =
                 [@ EXCEPT !.chan = Tail(@), !.consumed = Append(@, line)]]
    /\ StreamerFrame

\* recv returns None: the channel is empty and its sender is gone
ProcessEnd(v, k) ==
    /\ streamer[v][k].parser
    /\ streamer[v][k].chan = <<>>
    /\ ~streamer[v][k].tx_open
    /\ streamer' = [streamer EXCEPT ![v][k] = [@ EXCEPT !.parser = FALSE]]
    /\ UNCHANGED catchup_data
    /\ StreamerFrame

\* after the select: is_streaming cleared under the write lock
StreamMark(v, k) ==
    /\ streamer[v][k].pc = "mark"
    /\ uiLock = "free"
    /\ catchup_data' = [catchup_data EXCEPT ![v][k] =
           IF IsSome(@) THEN Some([Unwrap(@) EXCEPT !.is_streaming = FALSE]) ELSE @]
    /\ streamer' = [streamer EXCEPT ![v][k] = [@ EXCEPT !.pc = "backoff"]]
    /\ StreamerFrame

\* the 5 s sleep ends: back to the top of the loop
StreamRetry(v, k) ==
    /\ streamer[v][k].pc = "backoff"
    /\ streamer' = [streamer EXCEPT ![v][k] = [@ EXCEPT !.pc = "start"]]
    /\ UNCHANGED catchup_data
    /\ StreamerFrame

\* a call of parse_catchup_output returns
ParseCatchupOutput ==
    /\ parse_call.result = None
    /\ parse_call' =
           [parse_call EXCEPT
               !.result = Some(parse_catchup_output(parse_call.output,
                                                    parse_call.is_firedancer))]
    /\ UNCHANGED << alert_config, node_status, rpc_failure_tracker,
                    validator_health, vote_data, previous_last_slots, increment_times,
                    last_vote_slot_times, alert_tracker, poller, uiLock, orch,
                    emergency_takeover_in_progress, ui, should_quit, view_state,
                    switch_confirmed, refresh_vars, key_vars, ssh_vars, hist,
                    config_vars, catchup_data, streamer >>

\* --------------------------------------------------------------------- time
\* the poller is at an await: its interval, an RPC fetch or an alert send
PollerAwaiting == poller.pc \in {"sleep", "fetch", "alert_send"}

\* the render loop waits: for its interval, for the ui_state lock, or is gone
UIWaiting ==
    \/ ui.pc \in {"tick", "exited"}
    \/ ui.pc = "draw" /\ uiLock # "free"
    \/ /\ ui.pc = "keys" /\ uiLock # "free"
       /\ key_events # <<>> /\ Head(key_events) = "r" /\ view_state = "Status"

\* no refresh_all_fields / refresh_validator_fields task is ready to run
\* (every step of theirs takes the ui_state lock)
RefresherWaiting ==
    \/ \A r \in RefreshIds : refreshers[r].phase = "Idle"
    \/ uiLock # "free"

\* no failover task is ready to run: a spawned task starts at once, and a task
\* whose 300 ms sleep has run down invokes the switch at once
OrchWaiting ==
    \A o \in OrchIds :
        /\ orch[o].phase # "Spawned"
        /\ ~(orch[o].phase = "Suspending" /\ orch[o].timer = 0)

\* the SSH prober sleeps, waits for a node's answer or for the lock
SshWaiting ==
    \/ uiLock # "free"
    \/ ssh.pc = "sleep"
    \/ ssh.pc = "probe" /\ detected_ssh_keys[ssh.idx][1]
    \/ ssh.pc = "probe1" /\ detected_ssh_keys[ssh.idx][2]

\* time passes only while every task is at an await that takes time
AllWaiting ==
    PollerAwaiting /\ UIWaiting /\ OrchWaiting /\ RefresherWaiting /\ SshWaiting

\* a second passes: every Instant held in the state or in a local ages
AgeOf(a) == Min(MaxAge, a + 1)
AgedInstant(o) == IF IsSome(o) THEN Some(AgeOf(Unwrap(o))) ELSE None
AgedSlotTime(o) == IF IsSome(o) THEN Some(<<Unwrap(o)[1], AgeOf(Unwrap(o)[2])>>) ELSE None
AgedFailureTracker(t) == [t EXCEPT !.first_failure_at = AgedInstant(@)]

Tick ==
    /\ AllWaiting
    /\ rpc_failure_tracker' =
           [v \in Validators |-> AgedFailureTracker(rpc_failure_tracker[v])]
    /\ validator_health' =
           [v \in Validators |->
               [ssh_status |-> AgedFailureTracker(validator_health[v].ssh_status),
                rpc_status |-> AgedFailureTracker(validator_health[v].rpc_status)]]
    /\ increment_times' =
           [k \in DOMAIN increment_times |-> AgedInstant(increment_times[k])]
    /\ last_vote_slot_times' =
           [v \in Validators |-> AgedSlotTime(last_vote_slot_times[v])]
    /\ alert_tracker' =
           [delinquency_tracker |->
                [v \in Validators |-> AgedInstant(alert_tracker.delinquency_tracker[v])],
            rpc_failure_tracker |->
                [v \in Validators |-> AgedInstant(alert_tracker.rpc_failure_tracker[v])]]
    /\ poller' =
           [poller EXCEPT
               !.new_increments = [k \in DOMAIN @ |-> AgedInstant(@[k])],
               !.new_slot_times = [k \in DOMAIN @ |-> AgedSlotTime(@[k])]]
    /\ hist' = [v \in Validators |->
                   [hist[v] EXCEPT !.run_alert_at = AgedInstant(@),
                                   !.rpc_alert_at = AgedInstant(@)]]
    /\ UNCHANGED << alert_config, node_status, vote_data, previous_last_slots,
                    uiLock, orch, emergency_takeover_in_progress, ui, should_quit,
                    view_state, switch_confirmed >>
    /\ ssh_alert_tracker' =
           [v \in Validators |-> AgedInstant(ssh_alert_tracker[v])]
    /\ UNCHANGED << refresh_vars, key_vars, ssh, ssh_health_data,
                    config_vars, catchup_vars >>

\* a 100 ms frame passes: ui_interval fires, the 300 ms sleeps run down
FrameTick ==
    /\ AllWaiting
    /\ UIWaiting
    /\ \/ ui.pc = "tick"
       \/ \E o \in OrchIds : orch[o].phase = "Suspending" /\ orch[o].timer > 0
    /\ ui' = IF ui.pc = "tick" THEN [ui EXCEPT !.pc = "loop"] ELSE ui
    /\ orch' = [o \in OrchIds |->
                   IF orch[o].phase = "Suspending" /\ orch[o].timer > 0
                   THEN [orch[o] EXCEPT !.timer = @ - 1] ELSE orch[o]]
    /\ UNCHANGED << alert_config, node_status, rpc_failure_tracker,
                    validator_health, vote_data, previous_last_slots, increment_times,
                    last_vote_slot_times, alert_tracker, poller, uiLock,
                    emergency_takeover_in_progress, should_quit, view_state,
                    switch_confirmed, hist >>
    /\ UNCHANGED << refresh_vars, key_vars, ssh_vars,
                    config_vars, catchup_vars >>

\* ------------------------------------------------------------ specification
FetchedData == {None} \cup {Some(s) : s \in Slots}

Next ==
    \/ PollerWake
    \/ \E idx \in Validators, data \in FetchedData : FetchOk(idx, data)
    \/ \E idx \in Validators : FetchErr(idx)
    \/ \E idx \in Validators : Update(idx)
    \/ \E idx \in Validators, sent \in BOOLEAN : AlertSendDone(idx, sent)
    \/ \E o \in OrchIds : OrchStart(o)
    \/ \E o \in OrchIds : OrchInvoke(o)
    \/ \E o \in OrchIds, ok \in BOOLEAN : OrchSwitchReturns(o, ok)
    \/ \E o \in OrchIds : OrchClear(o)
    \/ SshWake
    \/ \E idx \in Validators : SshProbeOk(idx)
    \/ \E idx \in Validators : SshProbeErr(idx)
    \/ \E idx \in Validators : SshProbeNode1Ok(idx)
    \/ \E idx \in Validators : SshProbeNode1Err(idx)
    \/ \E idx \in Validators, k \in Nodes : SshNoKey(idx, k)
    \/ SshCommit
    \/ \E v \in Validators, k \in Nodes : StreamStart(v, k)
    \/ \E v \in Validators, k \in Nodes : StreamSend(v, k)
    \/ \E v \in Validators, k \in Nodes : StreamEnd(v, k)
    \/ \E v \in Validators, k \in Nodes : ProcessLine(v, k)
    \/ \E v \in Validators, k \in Nodes : ProcessEnd(v, k)
    \/ \E v \in Validators, k \in Nodes : StreamMark(v, k)
    \/ \E v \in Validators, k \in Nodes : StreamRetry(v, k)
    \/ ParseCatchupOutput
    \/ \E r \in RefreshIds : RefreshAllStart(r)
    \/ \E r \in RefreshIds, v \in Validators : RefreshValidator(r, v)
    \/ \E r \in RefreshIds : RefreshAllEnd(r)
    \/ \E v \in Validators, k \in Nodes : RefreshNodeStatusAndIdentity(v, k)
    \/ \E v \in Validators, k \in Nodes : RefreshNodeVersion(v, k)
    \/ \E key \in Keys : KeyPress(key)
    \/ UIStart
    \/ UILoop
    \/ UIKeys
    \/ UIDraw
    \/ \E held \in BOOLEAN : UILoopErr(held)
    \/ UIKeysErr
    \/ UIDrawErr
    \/ Tick
    \/ FrameTick

Spec == Init /\ [][Next]_vars

\* every node's host has an SSH key and no call of the catchup parser is
\* looked at
Quiet ==
    /\ detected_ssh_keys = [v \in Validators |-> [k \in Nodes |-> TRUE]]
    /\ parse_call = NoParseCall

\* no node answers a command sent over SSH: getIdentity, version, "true"
Unreachable == [v \in Validators |-> [k \in Nodes |-> None]]

\* the startup refresh up to the commands it sends to the nodes
StartupRefresh ==
    \/ UIStart
    \/ \E r \in RefreshIds : RefreshAllStart(r)
    \/ \E r \in RefreshIds, v \in Validators : RefreshValidator(r, v)
    \/ \E r \in RefreshIds : RefreshAllEnd(r)

\* The vote poller observed alone: validator 1's RPC endpoint returns anything,
\* the other validators' accounts have no recent votes, and no validator has
\* an identifiable Active node, so a spawned failover task returns at once;
\* the operator presses no key and no node answers over SSH.
InitPoll ==
    /\ Quiet
    /\ Init
    /\ node_status = [v \in Validators |-> <<"Unknown", "Standby">>]
    /\ remote = Unreachable

NextPoll ==
    \/ PollerWake
    \/ \E data \in FetchedData : FetchOk(1, data)
    \/ \E idx \in Validators \ {1} : FetchOk(idx, None)
    \/ FetchErr(1)
    \/ \E idx \in Validators : Update(idx)
    \/ \E idx \in Validators, sent \in BOOLEAN : AlertSendDone(idx, sent)
    \/ \E o \in OrchIds : OrchStart(o)
    \/ StartupRefresh
    \/ UILoop
    \/ UIKeys
    \/ UIDraw
    \/ Tick
    \/ FrameTick

SpecPoll == InitPoll /\ [][NextPoll]_vars

\* The failover handshake: auto-failover is enabled and every validator's vote
\* account stays frozen at one slot, so every validator becomes delinquent;
\* the operator watches the Status view and may press Ctrl-C; no node
\* answers over SSH.
InitFailover ==
    /\ Quiet
    /\ Init
    /\ alert_config = [some |-> TRUE, enabled |-> TRUE, auto_failover_enabled |-> TRUE]
    /\ remote = Unreachable

NextFailover ==
    \/ PollerWake
    \/ \E idx \in Validators : FetchOk(idx, Some(1))
    \/ \E idx \in Validators : Update(idx)
    \/ \E idx \in Validators, sent \in BOOLEAN : AlertSendDone(idx, sent)
    \/ \E o \in OrchIds : OrchStart(o)
    \/ \E o \in OrchIds : OrchInvoke(o)
    \/ \E o \in OrchIds, ok \in BOOLEAN : OrchSwitchReturns(o, ok)
    \/ \E o \in OrchIds : OrchClear(o)
    \/ StartupRefresh
    \/ KeyPress("ctrl_c")
    \/ UILoop
    \/ UIKeys
    \/ UIDraw
    \/ Tick
    \/ FrameTick

SpecFailover == InitFailover /\ [][NextFailover]_vars

\* The SSH prober beside a delinquency: every vote account stays frozen at
\* one slot, node 0 of validator 1 may fail its probe, the other validators'
\* nodes answer every probe; alerts and auto-failover are enabled, no
\* validator has an identifiable Active node, the operator presses no key.
InitHealth ==
    /\ Quiet
    /\ Init
    /\ alert_config = [some |-> TRUE, enabled |-> TRUE, auto_failover_enabled |-> TRUE]
    /\ node_status = [v \in Validators |-> <<"Unknown", "Standby">>]
    /\ remote = Unreachable

NextHealth ==
    \/ PollerWake
    \/ \E idx \in Validators : FetchOk(idx, Some(1))
    \/ \E idx \in Validators : Update(idx)
    \/ \E idx \in Validators, sent \in BOOLEAN : AlertSendDone(idx, sent)
    \/ \E o \in OrchIds : OrchStart(o)
    \/ SshWake
    \/ \E idx \in Validators : SshProbeOk(idx)
    \/ SshProbeErr(1)
    \/ \E idx \in Validators : SshProbeNode1Ok(idx)
    \/ SshCommit
    \/ StartupRefresh
    \/ UILoop
    \/ UIKeys
    \/ UIDraw
    \/ Tick
    \/ FrameTick

SpecHealth == InitHealth /\ [][NextHealth]_vars

\* The field refresher: the operator presses r; the first node of validator 1
\* never tells its identity, the second nodes of the others run the
\* validator's own identity, every other node runs another one, the same way
\* throughout; the nodes of one validator answer before those of the next;
\* alerts are not configured and the probes are still asleep.
InitRefresh ==
    /\ Quiet
    /\ Init
    /\ alert_config = [some |-> FALSE, enabled |-> FALSE, auto_failover_enabled |-> FALSE]
    /\ node_status = [v \in Validators |-> <<"Active", "Standby">>]
    /\ remote = [v \in Validators |->
                    IF v = 1 THEN <<None, Some(0)>>
                    ELSE <<Some(0), Some(IdentityPubkey(v))>>]

\* the nodes of the validators before v have answered every command
EarlierAnswered(v) ==
    \A w \in Validators, k \in Nodes :
        w < v => node_tasks[w][k] = NoNodeTasks

NextRefresh ==
    \/ StartupRefresh
    \/ \E v \in Validators, k \in Nodes :
          EarlierAnswered(v) /\ RefreshNodeStatusAndIdentity(v, k)
    \/ \E v \in Validators, k \in Nodes :
          EarlierAnswered(v) /\ RefreshNodeVersion(v, k)
    \/ KeyPress("r")
    \/ UILoop
    \/ UIKeys
    \/ UIDraw
    \/ FrameTick

SpecRefresh == InitRefresh /\ [][NextRefresh]_vars

\* The trackers of the probes: validator 1's RPC endpoint and its node 0 may
\* fail, the vote accounts hold no recent votes, the other validators' nodes
\* answer every probe; alerts are not configured, the operator presses no key.
InitTrackers ==
    /\ Quiet
    /\ Init
    /\ alert_config = [some |-> FALSE, enabled |-> FALSE, auto_failover_enabled |-> FALSE]
    /\ node_status = [v \in Validators |-> <<"Unknown", "Standby">>]
    /\ remote = Unreachable

NextTrackers ==
    \/ PollerWake
    \/ \E idx \in Validators : FetchOk(idx, None)
    \/ FetchErr(1)
    \/ \E idx \in Validators : Update(idx)
    \/ SshWake
    \/ \E idx \in Validators : SshProbeOk(idx)
    \/ SshProbeErr(1)
    \/ \E idx \in Validators : SshProbeNode1Ok(idx)
    \/ SshCommit
    \/ StartupRefresh
    \/ UILoop
    \/ UIKeys
    \/ UIDraw
    \/ Tick
    \/ FrameTick

SpecTrackers == InitTrackers /\ [][NextTrackers]_vars

\* The keyboard: the operator presses any key, no node answers over SSH and
\* the probes are still asleep.
InitKeys ==
    /\ Quiet
    /\ Init
    /\ alert_config = [some |-> FALSE, enabled |-> FALSE, auto_failover_enabled |-> FALSE]
    /\ node_status = [v \in Validators |-> <<"Active", "Standby">>]
    /\ remote = Unreachable

NextKeys ==
    \/ StartupRefresh
    \/ \E key \in Keys : KeyPress(key)
    \/ UILoop
    \/ UIKeys
    \/ UIDraw
    \/ FrameTick

SpecKeys == InitKeys /\ [][NextKeys]_vars

\* The catchup parser: one call of parse_catchup_output with any line of
\* Lines for a node of either kind; every task is still to be started.
InitParse ==
    /\ alert_config = [some |-> FALSE, enabled |-> FALSE, auto_failover_enabled |-> FALSE]
    /\ node_status = [v \in Validators |-> <<"Active", "Standby">>]
    /\ remote = Unreachable
    /\ detected_ssh_keys = [v \in Validators |-> [k \in Nodes |-> TRUE]]
    /\ Init
    /\ parse_call \in ParseCalls

NextParse == ParseCatchupOutput

SpecParse == InitParse /\ [][NextParse]_vars

\* The catchup streamer of node 1 of validator 1 and its parser: the command
\* prints up to MaxLines lines and ends at any moment, the parser runs at its
\* own pace; no node answers the refresh.
InitStream ==
    /\ Quiet
    /\ Init
    /\ alert_config = [some |-> FALSE, enabled |-> FALSE, auto_failover_enabled |-> FALSE]
    /\ node_status = [v \in Validators |-> <<"Active", "Standby">>]
    /\ remote = Unreachable

NextStream ==
    \/ StartupRefresh
    \/ StreamStart(1, 2)
    \/ StreamSend(1, 2)
    \/ StreamEnd(1, 2)
    \/ ProcessLine(1, 2)
    \/ ProcessEnd(1, 2)
    \/ StreamMark(1, 2)
    \/ StreamRetry(1, 2)

SpecStream == InitStream /\ [][NextStream]_vars

\* The SSH prober alone: any node may fail its probe, node 1 of the last
\* validator may have no key; the render loop draws its frames and time
\* passes; the vote poller and the streamers are not looked at.
InitSsh ==
    /\ alert_config = [some |-> TRUE, enabled |-> TRUE, auto_failover_enabled |-> FALSE]
    /\ node_status = [v \in Validators |-> <<"Active", "Standby">>]
    /\ remote = Unreachable
    /\ parse_call = NoParseCall
    /\ Init
    /\ \A v \in Validators, k \in Nodes :
          ~detected_ssh_keys[v][k] => (v = NumValidators /\ k = 2)

NextSsh ==
    \/ StartupRefresh
    \/ SshWake
    \/ \E idx \in Validators : SshProbeOk(idx)
    \/ \E idx \in Validators : SshProbeErr(idx)
    \/ \E idx \in Validators : SshProbeNode1Ok(idx)
    \/ \E idx \in Validators : SshProbeNode1Err(idx)
    \/ \E idx \in Validators, k \in Nodes : SshNoKey(idx, k)
    \/ SshCommit
    \/ UILoop
    \/ UIKeys
    \/ UIDraw
    \/ Tick
    \/ FrameTick

SpecSsh == InitSsh /\ [][NextSsh]_vars

\* The terminal: the operator presses any key and any terminal call of the
\* render loop may fail; no node answers over SSH and the probes are still
\* asleep.

NextTerminal ==
    \/ StartupRefresh
    \/ \E key \in Keys : KeyPress(key)
    \/ UILoop
    \/ UIKeys
    \/ UIDraw
    \/ \E held \in BOOLEAN : UILoopErr(held)
    \/ UIKeysErr
    \/ UIDrawErr
    \/ FrameTick

SpecTerminal == InitKeys /\ [][NextTerminal]_vars

\* ------------------------------------------------------------------ claims
\* what a step did
SpawnedFor(i) ==
    \E o \in OrchIds :
        orch[o].phase = "Idle" /\ orch'[o].phase = "Spawned" /\ orch'[o].v = i

SpawnCountFor(i) ==
    Cardinality({ o \in OrchIds :
        orch[o].phase = "Idle" /\ orch'[o].phase = "Spawned" /\ orch'[o].v = i })

PollTurn(i) == poller.pc = "update" /\ poller.idx = i /\ poller' # poller

AlertDecidedIn(i) == PollTurn(i) /\ poller'.pc = "alert_send"

AlertSendReturned(i) ==
    poller.pc = "alert_send" /\ poller.idx = i /\ poller'.pc # "alert_send"

\* the (last_slot, last_slot_changed_at) pair validator i's turn decided on
NewPairOf(i) ==
    IF poller'.pc = "sleep" THEN last_vote_slot_times'[i]
    ELSE poller'.new_slot_times[i]

ObservedSlot(i) == LastSlotOf(poller.new_vote_data[i])

\* the poll observed a slot strictly above the tracked one (or the first slot)
SlotAdvanced(i) ==
    /\ IsSome(ObservedSlot(i))
    /\ \/ last_vote_slot_times[i] = None
       \/ Unwrap(ObservedSlot(i)) > Unwrap(last_vote_slot_times[i])[1]

NonIdle == { o \in OrchIds : orch[o].phase \in {"Suspending", "Executing", "Settling"} }

\* C1: the poller spawns the failover task for validator i only in the step
\* after a delinquency alert for i was decided, with alerts and auto-failover
\* enabled, the fetch of i in this poll successful and the poller's RPC
\* failure tracker of i at zero consecutive failures.
C1_SpawnOnlyWhenGated ==
    [][\A i \in Validators :
          SpawnedFor(i) =>
              /\ alert_config.some /\ alert_config.enabled
              /\ alert_config.auto_failover_enabled
              /\ poller.pc = "alert_send" /\ poller.idx = i
              /\ poller.new_vote_data[i] # None
              /\ rpc_failure_tracker[i].consecutive_failures = 0]_vars

C1_Witness ==
    /\ \E o \in OrchIds : orch[o].phase = "Spawned" /\ orch[o].v = 1
    /\ rpc_failure_tracker[1].consecutive_failures = 0

\* C2: at most one orchestrator instance is Suspending, Executing or Settling.
C2_AtMostOneFailover == Cardinality(NonIdle) <= 1

\* C3: while the external switch executes, the render loop has released the
\* terminal and is not in an iteration that handles keys or draws.
C3_SwitchNeverSharesTerminal ==
    (\E o \in OrchIds : orch[o].phase = "Executing") =>
        ~ui.terminal_held /\ ui.pc \notin {"keys", "draw"}

\* C4: the flag is true whenever some instance is Suspending, Executing or
\* Settling, and false when every instance is idle.
C4_FlagTracksOrchestrators ==
    emergency_takeover_in_progress <=> NonIdle # {}

\* C5: when an orchestrator run ends, the render loop (unless it has exited)
\* has observed the rising edge of that run; and an iteration that sampled
\* the flag as true handles no key and draws no frame.
C5_EdgesObserved ==
    /\ [][(\E o \in OrchIds : orch[o].phase = "Settling" /\ orch'[o].phase = "Idle")
            => (ui.emergency_mode \/ ui.pc = "exited")]_vars
    /\ [](ui.pc \in {"keys", "draw"} => ~ui.emergency_in_progress)

\* C6: a poll of validator i that failed or observed a slot replaces the
\* tracked pair by (observed slot, now) iff the observed slot is strictly
\* greater than the tracked one, and otherwise leaves the pair unchanged.
C6_PairUpdatedIffAdvance ==
    [][\A i \in Validators :
          PollTurn(i) /\ (poller.new_vote_data[i] = None \/ IsSome(ObservedSlot(i)))
          => NewPairOf(i) = IF SlotAdvanced(i)
                            THEN Some(<<Unwrap(ObservedSlot(i)), 0>>)
                            ELSE last_vote_slot_times[i]]_vars

\* C7: delinquency_tracker.reset(i) is called in exactly the polls in which
\* the observed slot of i advances.
C7_ResetIffAdvance ==
    [][\A i \in Validators : PollTurn(i) => (hist'[i].reset <=> SlotAdvanced(i))]_vars

\* C8: within one stall run no delinquency alert is decided while the tracked
\* slot is younger than the threshold, and at most one alert is decided in the
\* run however long it lasts.
C8_OneAlertPerRun ==
    /\ [][\A i \in Validators :
             AlertDecidedIn(i) => DelinquencyDue(last_vote_slot_times[i])]_vars
    /\ [](\A i \in Validators : hist[i].run_alerts <= 1)

\* C9: after an alert, a poll that observes an advanced slot decides no alert
\* and clears the suppressor; and once it has, a poll that finds the slot
\* stalled for the threshold (RPC succeeding, alerts enabled) decides a new
\* alert.
C9_RearmedAfterAdvance ==
    [][\A i \in Validators :
          /\ (PollTurn(i) /\ IsSome(last_vote_slot_times[i]) /\ SlotAdvanced(i))
                 => /\ ~AlertDecidedIn(i)
                    /\ alert_tracker'.delinquency_tracker[i] = None
          /\ (/\ PollTurn(i)
              /\ hist[i].stage = 2
              /\ AlertManagerPresent
              /\ IsSome(ObservedSlot(i))
              /\ IsSome(last_vote_slot_times[i])
              /\ Unwrap(ObservedSlot(i)) = Unwrap(last_vote_slot_times[i])[1]
              /\ SecondsSinceVote(last_vote_slot_times[i]) >= DelinquencyThreshold)
                 => AlertDecidedIn(i)]_vars

C9_Witness == hist[1].stage = 3

\* C10: the orchestrator is spawned for i only in the step in which the
\* delinquency alert send returns, and at most once while the slot of i stays
\* frozen.
C10_OneSpawnPerStall ==
    /\ [][\A i \in Validators : SpawnedFor(i) => AlertSendReturned(i)]_vars
    /\ [](\A i \in Validators : hist[i].run_spawns <= 1)

\* everything the poller and the failover tasks read or write, without the
\* SSH trackers
NonSshState ==
    << alert_config, node_status, rpc_failure_tracker,
       [v \in Validators |-> validator_health[v].rpc_status],
       vote_data, previous_last_slots, increment_times, last_vote_slot_times,
       alert_tracker, poller, orch, emergency_takeover_in_progress >>

\* a step of the SSH prober
SshStep == ssh' # ssh

\* C11: the auto-failover decision does not depend on SSH health. Every
\* step of the SSH prober leaves the state the poller decides on unchanged,
\* and when a delinquency alert send for validator i returns, the failover
\* task is spawned exactly if alerts and auto-failover are enabled and the
\* RPC tracker of i shows no failure, whatever the SSH tracker shows: two
\* runs that differ only in probe outcomes spawn at the same polls.
C11_SpawnIgnoresSsh ==
    [][/\ SshStep => UNCHANGED NonSshState
       /\ \A i \in Validators :
             AlertSendReturned(i) =>
                 (SpawnedFor(i) <=>
                      /\ alert_config.some /\ alert_config.enabled
                      /\ alert_config.auto_failover_enabled
                      /\ validator_health[i].rpc_status.consecutive_failures = 0)]_vars

\* a failover task was spawned for validator 1 while its node 0 fails the
\* SSH probe
C11_Witness ==
    /\ \E o \in OrchIds : orch[o].phase = "Spawned" /\ orch[o].v = 1
    /\ validator_health[1].ssh_status.consecutive_failures > 0

\* the fetch of validator i in this step failed / succeeded
FetchFailed(i) ==
    poller.pc = "fetch" /\ poller.idx = i /\ poller' # poller
    /\ rpc_failure_tracker'[i].consecutive_failures > 0

FetchSucceeded(i) ==
    poller.pc = "fetch" /\ poller.idx = i /\ poller' # poller
    /\ rpc_failure_tracker'[i].consecutive_failures = 0

\* the elapsed time of the failure run, after the step
RpcSecondsAfter(i) ==
    LET s == seconds_since_first_failure(rpc_failure_tracker'[i]) IN
    IF IsSome(s) THEN Unwrap(s) ELSE 0

\* no alert below the threshold, alerts a window apart, success ends the run
RpcAlertCommon(i) ==
    /\ (FetchFailed(i) /\ RpcSecondsAfter(i) < RpcFailureThreshold)
           => ~hist'[i].rpc_alert
    /\ (FetchFailed(i) /\ hist'[i].rpc_alert /\ IsSome(hist[i].rpc_alert_at))
           => Unwrap(hist[i].rpc_alert_at) >= SuppressionWindow
    /\ FetchSucceeded(i)
           => (/\ rpc_failure_tracker'[i] = NewFailureTracker
               /\ seconds_since_first_failure(rpc_failure_tracker'[i]) = None)

\* C12 (as stated): in an RPC failure run of validator i no RPC-failure
\* alert is sent below the threshold, one is sent at the first failed poll at
\* or past the threshold (alerts being enabled), two alerts for i are at least
\* the suppression window apart, and a successful fetch ends the run and
\* resets the elapsed time.
C12_AlertAtFirstPollPastThreshold ==
    [][\A i \in Validators :
          /\ RpcAlertCommon(i)
          /\ (FetchFailed(i) /\ AlertManagerPresent
                  /\ RpcSecondsAfter(i) >= RpcFailureThreshold
                  /\ ~hist[i].rpc_past)
                 => hist'[i].rpc_alert]_vars

\* C12 (amended): as above, but at a failed poll at or past the threshold an
\* alert is sent exactly if the suppressor permits: no RPC-failure alert for
\* i, of this failure run or of an earlier one, was acknowledged within the
\* suppression window. A successful fetch does not re-arm the suppressor.
C12_AlertIffSuppressorPermits ==
    [][\A i \in Validators :
          /\ RpcAlertCommon(i)
          /\ (FetchFailed(i) /\ AlertManagerPresent
                  /\ RpcSecondsAfter(i) >= RpcFailureThreshold)
                 => (hist'[i].rpc_alert
                        <=> AlertPermitted(alert_tracker.rpc_failure_tracker, i))
          /\ FetchSucceeded(i)
                 => (alert_tracker'.rpc_failure_tracker
                         = alert_tracker.rpc_failure_tracker)]_vars

\* a failed poll of validator 1 reached the threshold and no alert was sent
\* in this failure run: the last alert is older than the run
C12_Witness ==
    /\ AlertManagerPresent
    /\ hist[1].rpc_past /\ ~hist[1].rpc_alert
    /\ IsSome(hist[1].rpc_alert_at)
    /\ IsSome(rpc_failure_tracker[1].first_failure_at)
    /\ Unwrap(hist[1].rpc_alert_at) > Unwrap(rpc_failure_tracker[1].first_failure_at)
    /\ Unwrap(hist[1].rpc_alert_at) <= SuppressionWindow

\* every failure tracker of the shared state
FailureTrackers ==
    { rpc_failure_tracker[v] : v \in Validators }
    \cup { validator_health[v].ssh_status : v \in Validators }
    \cup { validator_health[v].rpc_status : v \in Validators }

\* C13: in every failure tracker of the shared state (the poller's RPC
\* tracker and NodeHealth's ssh and rpc trackers of every validator), after
\* any sequence of record_success / record_failure calls of the probes,
\* first_failure_at is defined iff consecutive_failures > 0.
C13_FirstFailureIffFailures ==
    \A t \in FailureTrackers :
        IsSome(t.first_failure_at) <=> t.consecutive_failures > 0

\* both probes of validator 1 are in a failure run, the RPC one after an
\* earlier run that a success ended
C13_Witness ==
    /\ rpc_failure_tracker[1].consecutive_failures > 0
    /\ validator_health[1].ssh_status.consecutive_failures > 1
    /\ IsSome(vote_data[1])

\* the Ok / Err arm of the fetch of validator i ran in this step: it pushed
\* Some(data) / None
FetchReturnedOk(i) ==
    /\ poller.pc = "fetch" /\ poller.idx = i /\ poller' # poller
    /\ IsSome(poller'.new_vote_data[i])

FetchReturnedErr(i) ==
    /\ poller.pc = "fetch" /\ poller.idx = i /\ poller' # poller
    /\ poller'.new_vote_data[i] = None

\* C14: record_success after one or more record_failure calls yields a
\* tracker equal to a freshly constructed one: whenever a fetch of validator
\* i succeeds, whatever the failure run before it, the RPC tracker of i has
\* consecutive_failures = 0, first_failure_at = None and last_error = None.
C14_SuccessYieldsFreshTracker ==
    [][\A i \in Validators :
          FetchReturnedOk(i) =>
              /\ rpc_failure_tracker'[i] = NewFailureTracker
              /\ rpc_failure_tracker'[i].consecutive_failures = 0
              /\ rpc_failure_tracker'[i].first_failure_at = None
              /\ rpc_failure_tracker'[i].last_error = None]_vars

\* the fetch of validator 1 has just succeeded in a poll that follows one in
\* which it failed
C14_Witness ==
    /\ poller.pc = "fetch" /\ poller.idx = 2
    /\ IsSome(poller.new_vote_data[1])
    /\ vote_data[1] = None
    /\ IsSome(alert_tracker.rpc_failure_tracker[1])
    /\ rpc_failure_tracker[1] = NewFailureTracker

\* C15: within a failure run first_failure_at is set by the first failure
\* and not overwritten by later ones, the elapsed time read at successive
\* polls does not decrease, and every failure adds exactly one to
\* consecutive_failures.
C15_FailureRunMonotone ==
    [][/\ \A i \in Validators :
             FetchReturnedErr(i) =>
                 (/\ rpc_failure_tracker'[i].consecutive_failures
                         = rpc_failure_tracker[i].consecutive_failures + 1
                  /\ rpc_failure_tracker'[i].first_failure_at
                         = IF rpc_failure_tracker[i].consecutive_failures = 0
                           THEN Some(0)
                           ELSE rpc_failure_tracker[i].first_failure_at)
       /\ \A i \in Validators :
             LET old == validator_health[i].ssh_status
                 new == validator_health'[i].ssh_status
             IN new.consecutive_failures > old.consecutive_failures =>
                    (/\ new.consecutive_failures = old.consecutive_failures + 1
                     /\ new.first_failure_at
                            = IF old.consecutive_failures = 0 THEN Some(0)
                              ELSE old.first_failure_at)
       /\ \A i \in Validators :
             (/\ rpc_failure_tracker[i].consecutive_failures > 0
              /\ rpc_failure_tracker'[i].consecutive_failures > 0)
                => Unwrap(seconds_since_first_failure(rpc_failure_tracker'[i]))
                       >= Unwrap(seconds_since_first_failure(rpc_failure_tracker[i]))]_vars

\* validator 1 is in a failure run whose second failure came at least a
\* second after the first
C15_Witness ==
    /\ rpc_failure_tracker[1].consecutive_failures = 2
    /\ IsSome(rpc_failure_tracker[1].first_failure_at)
    /\ Unwrap(rpc_failure_tracker[1].first_failure_at) >= 1
    /\ poller.pc = "fetch" /\ poller.idx = 2
    /\ poller.new_vote_data[1] = None

\* the role of a node agrees with the identity it is known to run
RoleMatchesIdentity(v, k) ==
    LET n == validator_statuses[v][k]
        known == IsSome(n.current_identity)
    IN /\ n.status = "Active"
          <=> (known /\ Unwrap(n.current_identity) = IdentityPubkey(v))
       /\ n.status = "Standby"
          <=> (known /\ Unwrap(n.current_identity) # IdentityPubkey(v))
       /\ n.status = "Unknown" <=> ~known

\* C16: in every reachable state every node of ui_state.validator_statuses
\* has status Active iff its current_identity is known and equals the
\* validator's identity_pubkey, Standby iff known and different, Unknown iff
\* unknown; the field refresher writes the identity and the recomputed status
\* in one critical section, so no state between the two writes is seen.
C16_StatusIffIdentity ==
    \A v \in Validators, k \in Nodes : RoleMatchesIdentity(v, k)

\* the refresher has rewritten roles: node 1 of validator 1 lost its
\* identity, node 2 of validator 2 turned out to run the validator's own
C16_Witness ==
    /\ validator_statuses[1][1].status = "Unknown"
    /\ validator_statuses[1][1].current_identity = None
    /\ validator_statuses[2][2].status = "Active"
    /\ validator_statuses[2][2].current_identity = Some(IdentityPubkey(2))
    /\ validator_statuses[2][1].current_identity = Some(0)

\* every spawned refresh task has finished and no key waits to be handled
RefreshQuiescent ==
    /\ ui.pc # "start"
    /\ key_events = <<>>
    /\ \A r \in RefreshIds : refreshers[r].phase = "Idle"
    /\ \A v \in Validators, k \in Nodes : node_tasks[v][k] = NoNodeTasks

\* the shared state a single refresh leaves: no flag set, every node field as
\* the node answered
SingleRefreshState ==
    /\ ~is_refreshing
    /\ \A v \in Validators, k \in Nodes :
          /\ field_refresh_states[v][k] = NewFieldRefreshState
          /\ validator_statuses[v][k].current_identity = remote[v][k]
          /\ validator_statuses[v][k].status = ExtractedStatus(v, remote[v][k])
          /\ validator_statuses[v][k].version = RemoteVersion

\* C17: once every spawned refresh task has finished, the shared state is
\* the one a single refresh leaves, however many times r was pressed in the
\* Status view while a refresh was in flight: all refresh flags false,
\* is_refreshing false, the node fields those of a single refresh.
C17_RepeatedRefreshSameState == RefreshQuiescent => SingleRefreshState

\* all is quiet after r was handled twice with a refresh in flight
C17_Witness ==
    /\ RefreshQuiescent
    /\ key_hist.key = "r"
    /\ key_hist.r_in_flight = 2
    /\ SingleRefreshState

\* this step is handle_key_event for `key`, called in view `view`
HandledIn(key, view) ==
    /\ ui.pc = "keys" /\ ui'.pc = "draw"
    /\ key_events # <<>> /\ Head(key_events) = key
    /\ view_state = view

\* this step is the top of a loop iteration
IterationStarts == ui.pc = "loop" /\ ui' # ui

\* C18: switch_confirmed becomes true only by a y press handled in the
\* Switch view; whenever it is true should_quit is true; a y press handled
\* in the Status view changes nothing; run_enhanced_ui returns the flag, so
\* it returns true only after such a confirmation.
C18_ConfirmedOnlyByYInSwitch ==
    [][/\ (switch_confirmed' /\ ~switch_confirmed) => HandledIn("y", "Switch")
       /\ HandledIn("y", "Switch") => (switch_confirmed' /\ should_quit')
       /\ switch_confirmed' => should_quit'
       /\ HandledIn("y", "Status") =>
              UNCHANGED << should_quit, view_state, switch_confirmed,
                           refresh_vars >>
       /\ IsSome(ui'.ret) =>
              (/\ Unwrap(ui'.ret) = switch_confirmed'
               /\ Unwrap(ui'.ret) => (key_hist'.key = "y" /\ key_hist'.view = "Switch"))]_vars

\* run_enhanced_ui has returned true after a y in the Switch view
C18_Witness ==
    /\ ui.pc = "exited"
    /\ ui.ret = Some(TRUE)
    /\ key_hist.key = "y" /\ key_hist.view = "Switch"
    /\ switch_confirmed /\ should_quit

\* C19: a q or Esc press handled in the Status view sets should_quit, and
\* the loop handles no further key and leaves at the top of its next
\* iteration; handled in the Switch view it sets the view back to Status,
\* leaves should_quit and switch_confirmed false and spawns the field
\* refresher.
C19_QuitOrBackToStatus ==
    [][/\ HandledIn("q", "Status") =>
              (should_quit' /\ UNCHANGED << view_state, switch_confirmed, refresh_vars >>)
       /\ should_quit' => ui'.pc # "keys"
       /\ (IterationStarts /\ should_quit) => ui'.pc = "exited"
       /\ HandledIn("q", "Switch") =>
              (/\ view_state' = "Status"
               /\ ~should_quit' /\ ~switch_confirmed'
               /\ \E r \in RefreshIds :
                      refreshers[r].phase = "Idle" /\ refreshers'[r].phase = "Spawned"
               /\ UNCHANGED << is_refreshing, field_refresh_states >>)]_vars

\* the operator went to the Switch view and came back with q, which started
\* a second refresh beside the startup one, then left with q
C19_Witness ==
    /\ ui.pc = "exited"
    /\ ui.ret = Some(FALSE)
    /\ key_hist.key = "q" /\ key_hist.view = "Status"
    /\ view_state = "Status"
    /\ \A v \in Validators, k \in Nodes :
          node_tasks[v][k] = [status_and_identity |-> 2, version |-> 2]
    /\ ~is_refreshing

\* C20: a Ctrl-C press leads to should_quit and to the end of the loop in
\* every state of the controller, also while an emergency takeover is in
\* progress: an iteration that starts with a Ctrl-C waiting in the terminal
\* reads the key, the handler sets should_quit in every view, and the next
\* iteration leaves the loop.
C20_CtrlCQuitsInEveryState ==
    [][/\ (/\ IterationStarts /\ ~should_quit
            /\ key_events # <<>> /\ Head(key_events) = "ctrl_c")
              => ui'.pc = "keys"
       /\ (\E view \in {"Status", "Switch"} : HandledIn("ctrl_c", view))
              => should_quit'
       /\ (IterationStarts /\ should_quit) => ui'.pc = "exited"]_vars

\* a task is inside a network call: the poller's RPC fetch or alert send,
\* the SSH prober's command
NetworkCallInProgress ==
    \/ poller.pc \in {"fetch", "alert_send"}
    \/ ssh.pc \in {"probe", "probe1"}

\* C21: no task holds the ui_state write lock while it performs I/O: while
\* an RPC call, an SSH command or an alert send is in progress the lock is
\* free, so the render loop's read is never blocked for a network call.
C21_NoLockAcrossIO == NetworkCallInProgress => uiLock = "free"

\* this step is the render loop's read of ui_state for a frame
FrameRead == ui.pc = "draw" /\ ui'.pc = "tick"

\* the poller is inside its update section: past the first turn, or at the
\* alert send of any turn
InUpdateSection ==
    \/ poller.pc = "alert_send"
    \/ poller.pc = "update" /\ poller.idx > 1

\* the slots of last_vote_slot_times and the validators whose increment
\* flash is on, whatever the age of their Instants
TrackedSlots(sts) ==
    [v \in Validators |->
        IF IsSome(Get(sts, v)) THEN Some(Unwrap(Get(sts, v))[1]) ELSE None]

Flashing(incs) == { v \in Validators : IsSome(Get(incs, v)) }

\* this step stores the poll's vectors at the end of the update section
PollCommitted == poller.pc \in {"update", "alert_send"} /\ poller'.pc = "sleep"

\* C22: the poll's observation, the slot-advance-time update and the
\* delinquency alert decision of every validator are applied in one critical
\* section: vote_data changes only in the step that also stores
\* last_vote_slot_times, increment_times and previous_last_slots, no frame
\* reads ui_state between the first turn of the section and that step, and
\* the RPC failure tracker of i then already reflects the same poll (failed
\* iff vote_data[i] is None), never the poll before.
C22_PollAppliedAtomically ==
    [][/\ FrameRead => ~InUpdateSection
       /\ (\/ vote_data' # vote_data
           \/ TrackedSlots(last_vote_slot_times') # TrackedSlots(last_vote_slot_times)
           \/ Flashing(increment_times') # Flashing(increment_times)
           \/ previous_last_slots' # previous_last_slots) => PollCommitted
       /\ PollCommitted =>
              (/\ vote_data' = poller.new_vote_data
               /\ previous_last_slots' = [v \in Validators |-> LastSlotOf(vote_data[v])]
               /\ Len(last_vote_slot_times') = NumValidators
               /\ \A i \in Validators :
                     vote_data'[i] = None
                         <=> rpc_failure_tracker'[i].consecutive_failures > 0)]_vars

\* the render loop waits for its read while the poller, inside the update
\* section, sends a delinquency alert
C22_Witness ==
    /\ ui.pc = "draw"
    /\ poller.pc = "alert_send" /\ uiLock = "poller"
    /\ IsSome(vote_data[1])

\* the call of parse_catchup_output on this line for a node of this kind
\* has returned
ReturnedFor(line, is_firedancer) ==
    /\ parse_call.output = line
    /\ parse_call.is_firedancer = is_firedancer
    /\ IsSome(parse_call.result)

\* C23: the Agave/Jito parser turns a line "<text> N slot(s) behind" with
\* N >= 1 into "N slots behind"; such a line is not classified "Caught up".
C23_BehindLineParsed ==
    \A head \in LineHeads, tail \in LineTails, n \in 1..MaxBehind :
        ReturnedFor(BehindLine(head, Decimal(n), tail), FALSE)
            => Unwrap(parse_call.result) = Decimal(n) \o " slots behind"

\* the states the parser names, and "N slots behind" for a numeral N
NamedCatchupStates ==
    { "Caught up", "CLI not found", "Command error", "RPC Error",
      "Connection Error", "Error", "Waiting...", "Not running" }

IsSlotsBehind(status) ==
    LET pos == Find(status, " slots behind") IN
    /\ IsSome(pos)
    /\ Unwrap(pos) + Len(" slots behind") = Len(status)
    /\ Unwrap(pos) > 0
    /\ \A i \in 1..Unwrap(pos) : IsDigit(SubSeq(status, i, i))

\* C24: whatever the line and the kind of node, parse_catchup_output returns
\* one of the named states, "N slots behind", or a raw line of at most
\* RawLineLimit characters; the Agave/Jito parser answers "Waiting..." to
\* an empty line.
C24_ClosedSetOfStates ==
    IsSome(parse_call.result) =>
        LET status == Unwrap(parse_call.result) IN
        /\ \/ status \in NamedCatchupStates
           \/ IsSlotsBehind(status)
           \/ Len(status) <= RawLineLimit
        /\ (parse_call.output = "" /\ ~parse_call.is_firedancer)
               => status = "Waiting..."

\* the lines the running stream of node k of validator v has sent, in order
Produced(v, k) == [i \in 1..streamer[v][k].sent |-> Line(i)]

\* C25: a streamer's channel never holds more than ChannelCapacity lines, a
\* send into a full channel waits for the parser; the lines the parser has
\* received followed by the lines in the channel are the lines sent, in the
\* order sent, and a parser that has ended has received them all, the ones
\* still in the channel when the command ended included.
C25_EveryLineConsumedInOrder ==
    \A v \in Validators, k \in Nodes :
        LET st == streamer[v][k] IN
        /\ Len(st.chan) <= ChannelCapacity
        /\ st.consumed \o st.chan = Produced(v, k)
        /\ (~st.parser) => st.chan = <<>>

\* the command printed MaxLines lines and ended with a full channel, which
\* the parser emptied before it ended
C25_Witness ==
    /\ streamer[1][2].pc = "backoff"
    /\ ~streamer[1][2].parser
    /\ Len(streamer[1][2].consumed) = MaxLines

\* C26: once run_enhanced_ui has returned, with the switch decision or with
\* an error, raw mode is disabled and the alternate screen is left.
C26_TerminalRestoredAtReturn == ui.pc = "exited" => ~ui.terminal_held

\* this step is the return of the probe of node k of validator idx
ProbeReturned(idx, k) ==
    /\ detected_ssh_keys[idx][k]
    /\ ssh.idx = idx
    /\ ssh.pc = (IF k = 1 THEN "probe" ELSE "probe1")
    /\ ssh' # ssh

\* the SshHealthStatus that probe produced
ProbedStatus(idx, k) ==
    IF k = 1 THEN ssh'.node_pair[1] ELSE ssh'.new_ssh_health_data[idx][2]

\* C27: the probe of either node of a validator is recorded in the SSH failure
\* tracking (validator_health[idx].ssh_status is all of it): a failure by
\* record_failure, a success of the node the tracker follows by
\* record_success; a failed probe whose failure run has lasted
\* ssh_failure_threshold_seconds, the suppressor permitting, is alerted.
C27_BothNodesTracked ==
    [][\A idx \in Validators, k \in Nodes :
          ProbeReturned(idx, k) =>
              LET t == validator_health[idx].ssh_status IN
              IF ProbedStatus(idx, k).is_healthy
              THEN k = 1 => validator_health'[idx].ssh_status = record_success(t)
              ELSE /\ validator_health'[idx].ssh_status = record_failure(t, "ssh error")
                   /\ (SshAlertDue(record_failure(t, "ssh error"))
                         /\ AlertPermitted(ssh_alert_tracker, idx))
                      => ssh_alert_tracker'[idx] = Some(0)]_vars

\* is_healthy iff failure_start is None, in every entry of this ssh_health_data
HealthyIffNoFailureStart(data) ==
    \A v \in Validators, k \in Nodes :
        data[v][k].is_healthy <=> data[v][k].failure_start = None

\* C28: a failed probe sets failure_start to now when the node was healthy
\* and keeps it otherwise, and keeps last_success; a success clears
\* failure_start; in ssh_health_data a node is healthy iff it has no
\* failure_start.
C28_FailureStartFollowsHealth ==
    [][/\ \A idx \in Validators, k \in Nodes :
             ProbeReturned(idx, k) =>
                 LET current == ssh_health_data[idx][k]
                     probed == ProbedStatus(idx, k)
                 IN IF probed.is_healthy
                    THEN probed.failure_start = None
                    ELSE /\ probed.failure_start =
                                IF current.is_healthy THEN Some(0)
                                ELSE current.failure_start
                         /\ probed.last_success = current.last_success
       /\ HealthyIffNoFailureStart(ssh_health_data')]_vars

\* C29: the RPC failure tracker in the NodeHealth of validator i, which the
\* auto-failover gate consults and a delinquency alert carries, is the
\* tracker the vote poller updates.
C29_NodeHealthRpcIsPollerTracker ==
    \A i \in Validators : validator_health[i].rpc_status = rpc_failure_tracker[i]

\* the validator task o was spawned for has no Active node or no Standby node
NodesUnidentified(o) ==
    LET roles == node_status[orch[o].v] IN
    \/ \A k \in Nodes : roles[k] # "Active"
    \/ \A k \in Nodes : roles[k] # "Standby"

\* this step is the first one of failover task o
OrchStarts(o) == orch[o].phase = "Spawned" /\ orch'[o] # orch[o]

InitSwitch ==
    /\ Quiet
    /\ alert_config = [some |-> TRUE, enabled |-> TRUE, auto_failover_enabled |-> TRUE]
    /\ node_status = [v \in Validators |-> <<"Active", "Standby">>]
    /\ remote = Unreachable
    /\ Init

NextSwitch ==
    \/ PollerWake
    \/ \E idx \in Validators : FetchOk(idx, Some(1))
    \/ \E idx \in Validators : Update(idx)
    \/ \E idx \in Validators, sent \in BOOLEAN : AlertSendDone(idx, sent)
    \/ \E o \in OrchIds : OrchStart(o)
    \/ \E o \in OrchIds : OrchInvoke(o)
    \/ \E o \in OrchIds, ok \in BOOLEAN : OrchSwitchReturns(o, ok)
    \/ \E o \in OrchIds : OrchClear(o)
    \/ StartupRefresh
    \/ UILoop
    \/ UIKeys
    \/ UIDraw
    \/ Tick
    \/ FrameTick

SpecSwitch ==
    /\ InitSwitch
    /\ [][NextSwitch]_vars
    /\ \A o \in OrchIds :
          /\ WF_vars(OrchStart(o))
          /\ WF_vars(OrchInvoke(o))
          /\ WF_vars(\E ok \in BOOLEAN : OrchSwitchReturns(o, ok))
          /\ WF_vars(OrchClear(o))
    /\ SF_vars(StartupRefresh \/ UILoop \/ UIKeys \/ UIDraw)
    /\ WF_vars(\E idx \in Validators : Update(idx))
    /\ SF_vars(FrameTick)

\* C31: whenever emergency_takeover_in_progress is set it is cleared later,
\* whether the switch returned Ok or Err; the return of the switch, Ok or
\* Err, takes the task to its last sleep and leaves the render loop and
\* should_quit alone.
C31_FlagEventuallyCleared ==
    /\ emergency_takeover_in_progress ~> ~emergency_takeover_in_progress
    /\ [][\A o \in OrchIds :
              (orch[o].phase = "Executing" /\ orch'[o] # orch[o]) =>
                  /\ orch'[o].phase = "Settling"
                  /\ UNCHANGED << ui, should_quit >>]_vars

\* a failover task has run to its end: spawned, flag set and cleared again
C31_Witness ==
    /\ \E v \in Validators : hist[v].run_spawns > 0
    /\ \A o \in OrchIds : orch[o] = IdleOrch
    /\ ~emergency_takeover_in_progress

\* --------------------------------------------------------------- C32
\* refresh_all_fields task r returns in this step: it writes is_refreshing
RefreshAllReturns(r) ==
    refreshers[r].phase = "Joining" /\ refreshers'[r].phase = "Idle"

\* a refresh_node_status_and_identity or refresh_node_version task is running
SubTaskRunning(v, k) == node_tasks[v][k] # NoNodeTasks

\* C32: when a refresh clears is_refreshing, every per-node sub-task
\* (identity and status, version) has completed: is_refreshing is not false
\* with a sub-task of the refresh that cleared it still running.
C32_ClearedAfterSubTasks ==
    [][\A r \in RefreshIds :
          RefreshAllReturns(r) =>
              /\ ~is_refreshing'
              /\ \A v \in Validators, k \in Nodes : ~SubTaskRunning(v, k)']_vars

\* --------------------------------------------------------------- C33
\* The field refresher triggered by leaving the Switch view: the operator
\* presses s and q (or Esc), the start of the UI refreshes too; the nodes
\* answer as in SpecRefresh.
NextTriggers ==
    \/ StartupRefresh
    \/ \E v \in Validators, k \in Nodes :
          EarlierAnswered(v) /\ RefreshNodeStatusAndIdentity(v, k)
    \/ \E v \in Validators, k \in Nodes :
          EarlierAnswered(v) /\ RefreshNodeVersion(v, k)
    \/ \E key \in {"s", "q"} : KeyPress(key)
    \/ UILoop
    \/ UIKeys
    \/ UIDraw
    \/ FrameTick

SpecTriggers == InitRefresh /\ [][NextTriggers]_vars

\* C33: while a refresh_node_status_and_identity task of a node is in flight
\* its status_refreshing and identity_refreshing flags are true, and while a
\* refresh_node_version task is in flight its version_refreshing flag is true.
C33_FlagsSetWhileInFlight ==
    \A v \in Validators, k \in Nodes :
        /\ node_tasks[v][k].status_and_identity > 0 =>
               /\ field_refresh_states[v][k].status_refreshing
               /\ field_refresh_states[v][k].identity_refreshing
        /\ node_tasks[v][k].version > 0 =>
               field_refresh_states[v][k].version_refreshing

\* --------------------------------------------------------------- C34
\* the nodes before node k of validator v have answered every command
NodesBeforeAnswered(v, k) ==
    \A w \in Validators, j \in Nodes :
        (w < v \/ (w = v /\ j < k)) => node_tasks[w][j] = NoNodeTasks

\* The field refresher with its tasks scheduled: the operator presses r, the
\* nodes answer as in SpecRefresh, one node after the other; every spawned
\* task runs, every command sent to a node returns, the render loop runs and
\* time passes.
NextRefreshFair ==
    \/ StartupRefresh
    \/ \E v \in Validators, k \in Nodes :
          NodesBeforeAnswered(v, k) /\ RefreshNodeStatusAndIdentity(v, k)
    \/ \E v \in Validators, k \in Nodes :
          NodesBeforeAnswered(v, k) /\ RefreshNodeVersion(v, k)
    \/ KeyPress("r")
    \/ UILoop
    \/ UIKeys
    \/ UIDraw
    \/ FrameTick

SpecRefreshFair ==
    /\ InitRefresh
    /\ [][NextRefreshFair]_vars
    /\ \A r \in RefreshIds :
          /\ WF_vars(RefreshAllStart(r))
          /\ WF_vars(\E v \in Validators : RefreshValidator(r, v))
          /\ WF_vars(RefreshAllEnd(r))
    /\ \A v \in Validators, k \in Nodes :
          /\ WF_vars(NodesBeforeAnswered(v, k) /\ RefreshNodeStatusAndIdentity(v, k))
          /\ WF_vars(NodesBeforeAnswered(v, k) /\ RefreshNodeVersion(v, k))
    /\ WF_vars(UIStart \/ UILoop \/ UIKeys \/ UIDraw)
    /\ WF_vars(FrameTick)

\* no refresh flag is set
NoRefreshFlag ==
    /\ ~is_refreshing
    /\ \A v \in Validators, k \in Nodes :
          field_refresh_states[v][k] = NewFieldRefreshState

\* C34: when the refresh triggers come to an end (from some moment on no key
\* waits to be handled and the UI has started), a state is reached from which
\* on every status, identity and version flag and is_refreshing are false.
C34_FlagsEventuallyClear ==
    <>[](ui.pc # "start" /\ key_events = <<>>) => <>[]NoRefreshFlag

\* r was handled with a refresh in flight, and every flag is false again
C34_Witness ==
    /\ key_hist.key = "r"
    /\ key_hist.r_in_flight > 0
    /\ RefreshQuiescent
    /\ NoRefreshFlag

\* --------------------------------------------------------------- C35
\* the stream of node k of validator v has ended and been marked so, and no
\* line of a new stream has been received
StreamEnded(v, k) ==
    \/ streamer[v][k].pc \in {"backoff", "start"}
    \/ streamer[v][k].pc = "streaming" /\ streamer[v][k].consumed = <<>>

\* C35: from the moment the streamer of a node has cleared is_streaming at
\* the end of a stream until a line of the next stream is received,
\* is_streaming of the node's CatchupStatus is false: no line of the ended
\* stream sets it again.
C35_NotStreamingAfterEnd ==
    \A v \in Validators, k \in Nodes :
        (StreamEnded(v, k) /\ IsSome(catchup_data[v][k])) =>
            ~Unwrap(catchup_data[v][k]).is_streaming

\* --------------------------------------------------------------- C36
\* A failover after the roles have changed: at startup node 0 of every
\* validator is Active and node 1 Standby, but the nodes tell the refresher
\* otherwise (as after an earlier takeover): node 1 of validator 2 runs the
\* validator's identity. Alerts and auto-failover are enabled, the vote
\* accounts stay frozen, no key is pressed.
InitRoles ==
    /\ Quiet
    /\ alert_config = [some |-> TRUE, enabled |-> TRUE, auto_failover_enabled |-> TRUE]
    /\ node_status = [v \in Validators |-> <<"Active", "Standby">>]
    /\ remote = [v \in Validators |->
                    IF v = 1 THEN <<None, Some(0)>>
                    ELSE <<Some(0), Some(IdentityPubkey(v))>>]
    /\ Init

NextRoles ==
    \/ PollerWake
    \/ \E idx \in Validators : FetchOk(idx, Some(1))
    \/ \E idx \in Validators : Update(idx)
    \/ \E idx \in Validators, sent \in BOOLEAN : AlertSendDone(idx, sent)
    \/ \E o \in OrchIds : OrchStart(o)
    \/ StartupRefresh
    \/ \E v \in Validators, k \in Nodes :
          NodesBeforeAnswered(v, k) /\ RefreshNodeStatusAndIdentity(v, k)
    \/ \E v \in Validators, k \in Nodes :
          NodesBeforeAnswered(v, k) /\ RefreshNodeVersion(v, k)
    \/ UILoop
    \/ UIKeys
    \/ UIDraw
    \/ Tick
    \/ FrameTick

SpecRoles == InitRoles /\ [][NextRoles]_vars

\* nodes_with_status.iter().find(|n| n.status == role): the first such node
FoundNode(roles, role) ==
    CHOOSE k \in DOMAIN roles :
        roles[k] = role /\ \A j \in DOMAIN roles : j < k => roles[j] # role

\* C36: the nodes a spawned failover task hands to the switch as active and
\* standby are the nodes whose roles in the shared state, as the field
\* refresher last wrote them, are Active and Standby when the failover is
\* decided.
C36_HandsOverCurrentRoles ==
    [][\A o \in OrchIds :
          (orch[o].phase = "Idle" /\ orch'[o].phase = "Spawned"
              /\ CanIdentifyNodes(node_status[orch'[o].v])) =>
              LET v == orch'[o].v
                  active_node == FoundNode(node_status[v], "Active")
                  standby_node == FoundNode(node_status[v], "Standby")
              IN /\ validator_statuses[v][active_node].status = "Active"
                 /\ validator_statuses[v][standby_node].status = "Standby"]_vars

\* --------------------------------------------------------------- C37
\* C37: a (last_slot, last_slot_changed_at) pair recorded for validator i is
\* never reset to absent by a later poll, whatever the poll returns.
C37_PairNeverReset ==
    [][\A i \in Validators :
          IsSome(Get(last_vote_slot_times, i)) =>
              IsSome(Get(last_vote_slot_times', i))]_vars

\* ---------------------------------------------------------------- the locks
\* The draw at the end of an iteration, in the two steps of the code: the
\* ui_state read guard is taken first and held while the view_state read
\* guard is taken.
UIDrawGuard ==
    /\ ui.pc = "draw"
    /\ uiLock = "free"
    /\ ui' = [ui EXCEPT !.pc = "view"]
    /\ uiLock' = "render"
    /\ UNCHANGED << alert_config, node_status, rpc_failure_tracker,
                    validator_health, vote_data, previous_last_slots, increment_times,
                    last_vote_slot_times, alert_tracker, poller, orch,
                    emergency_takeover_in_progress, should_quit, view_state,
                    switch_confirmed, hist >>
    /\ UNCHANGED << refresh_vars, key_vars, ssh_vars,
                    config_vars, catchup_vars >>

\* the view_state read guard (no other task takes view_state, and the key
\* handler has dropped its own guards), the frame drawn, both guards dropped
UIDrawView ==
    /\ ui.pc = "view"
    /\ ui' = [ui EXCEPT !.pc = "tick"]
    /\ uiLock' = "free"
    /\ UNCHANGED << alert_config, node_status, rpc_failure_tracker,
                    validator_health, vote_data, previous_last_slots, increment_times,
                    last_vote_slot_times, alert_tracker, poller, orch,
                    emergency_takeover_in_progress, should_quit, view_state,
                    switch_confirmed, hist >>
    /\ UNCHANGED << refresh_vars, key_vars, ssh_vars,
                    config_vars, catchup_vars >>

\* The tasks that take the locks, side by side: the vote poller (validator 1
\* stops voting, the other accounts have no recent votes), the failover task it
\* spawns, the SSH prober with every node answering, the startup refresh and
\* the render loop with the keys s and y; no node answers the refresh.
NextLocks ==
    \/ PollerWake
    \/ \E idx \in Validators : FetchOk(idx, IF idx = 1 THEN Some(1) ELSE None)
    \/ \E idx \in Validators : Update(idx)
    \/ \E idx \in Validators, sent \in BOOLEAN : AlertSendDone(idx, sent)
    \/ \E o \in OrchIds : OrchStart(o)
    \/ \E o \in OrchIds : OrchInvoke(o)
    \/ \E o \in OrchIds, ok \in BOOLEAN : OrchSwitchReturns(o, ok)
    \/ \E o \in OrchIds : OrchClear(o)
    \/ SshWake
    \/ \E idx \in Validators : SshProbeOk(idx)
    \/ \E idx \in Validators : SshProbeNode1Ok(idx)
    \/ SshCommit
    \/ StartupRefresh
    \/ \E key \in {"s", "y"} : KeyPress(key)
    \/ UILoop
    \/ UIKeys
    \/ UIDrawGuard
    \/ UIDrawView
    \/ Tick
    \/ FrameTick

SpecLocks == InitSwitch /\ [][NextLocks]_vars

C39_NoConfirmDuringTakeover ==
    ~(switch_confirmed /\ emergency_takeover_in_progress)

\* The writers of the shared state side by side: the startup refresh with the
\* nodes answering one after the other, the streamer of node 1 of validator 1
\* with its parser (two lines a stream), and the render loop with the keys s
\* and, in the Switch view, r.
NextWriters ==
    \/ StartupRefresh
    \/ \E v \in Validators, k \in Nodes :
          NodesBeforeAnswered(v, k) /\ RefreshNodeStatusAndIdentity(v, k)
    \/ \E v \in Validators, k \in Nodes :
          NodesBeforeAnswered(v, k) /\ RefreshNodeVersion(v, k)
    \/ StreamStart(1, 2)
    \/ streamer[1][2].sent < 2 /\ StreamSend(1, 2)
    \/ StreamEnd(1, 2)
    \/ ProcessLine(1, 2)
    \/ ProcessEnd(1, 2)
    \/ StreamMark(1, 2)
    \/ StreamRetry(1, 2)
    \/ KeyPress("s")
    \/ view_state = "Switch" /\ KeyPress("r")
    \/ UILoop
    \/ UIKeys
    \/ UIDraw
    \/ FrameTick

SpecWriters == InitRefresh /\ [][NextWriters]_vars

\* the shared state that is no part of any refresh sub-task or streamer
SharedElsewhere ==
    << vote_data, previous_last_slots, increment_times, last_vote_slot_times,
       rpc_failure_tracker, validator_health, alert_tracker, ssh_health_data,
       is_refreshing, view_state, should_quit, switch_confirmed,
       emergency_takeover_in_progress >>

\* C40: each writer changes only its own part of the shared state. A step of
\* the streamer of (v, k) or of its parser changes at most catchup_data[v][k];
\* the version sub-task of (v, k) changes at most that node's version and
\* version_refreshing; the identity sub-task at most that node's status,
\* current_identity, status_refreshing and identity_refreshing; an r handled
\* in the Switch view changes nothing of the shared state and spawns nothing.
C40_WritersOwnPart ==
    [][/\ \A v \in Validators, k \in Nodes :
            /\ streamer'[v][k] # streamer[v][k] =>
                  /\ \A w \in Validators, j \in Nodes :
                        (<< w, j >> # << v, k >>) =>
                            catchup_data'[w][j] = catchup_data[w][j]
                  /\ UNCHANGED << validator_statuses, field_refresh_states,
                                  SharedElsewhere >>
            /\ node_tasks'[v][k].version < node_tasks[v][k].version =>
                  /\ validator_statuses' =
                         [validator_statuses EXCEPT
                             ![v][k].version = validator_statuses'[v][k].version]
                  /\ field_refresh_states' =
                         [field_refresh_states EXCEPT
                             ![v][k].version_refreshing =
                                 field_refresh_states'[v][k].version_refreshing]
                  /\ UNCHANGED << catchup_data, SharedElsewhere >>
            /\ node_tasks'[v][k].status_and_identity
                   < node_tasks[v][k].status_and_identity =>
                  /\ validator_statuses' =
                         [validator_statuses EXCEPT
                             ![v][k].status = validator_statuses'[v][k].status,
                             ![v][k].current_identity =
                                 validator_statuses'[v][k].current_identity]
                  /\ field_refresh_states' =
                         [field_refresh_states EXCEPT
                             ![v][k].status_refreshing =
                                 field_refresh_states'[v][k].status_refreshing,
                             ![v][k].identity_refreshing =
                                 field_refresh_states'[v][k].identity_refreshing]
                  /\ UNCHANGED << catchup_data, SharedElsewhere >>
       /\ (/\ ui.pc = "keys" /\ ui'.pc = "draw"
           /\ key_events # <<>> /\ Head(key_events) = "r"
           /\ view_state = "Switch") =>
              UNCHANGED << validator_statuses, field_refresh_states, catchup_data,
                           refreshers, node_tasks, SharedElsewhere >>]_vars

\* every writer has written: the sub-tasks of the startup refresh have all
\* answered, the parser has stored a status for node 1 of validator 1 and the
\* last key handled was an r in the Switch view
C40_Witness ==
    /\ ui.pc # "start" /\ RefreshQuiescent
    /\ \A v \in Validators, k \in Nodes : field_refresh_states[v][k] = NewFieldRefreshState
    /\ IsSome(catchup_data[1][2])
    /\ key_hist.key = "r" /\ key_hist.view = "Switch"

====
